---------------------------- MODULE Spec2Model ----------------------------
(***************************************************************************)
(* Model of the BayesEoR posterior evaluator                               *)
(* (src/Likelihood/Likelihood.py, class PowerSpectrumPosteriorProbability) *)
(* as a state machine: one action per stage of posterior_probability.      *)
(*                                                                         *)
(* Numbers.  numpy's complex128 values are modelled exactly: a number is a *)
(* triple <<a, b, d>> standing for (a + b*i)/d with d > 0 and              *)
(* gcd(a, b, d) = 1.  A zero denominator encodes the IEEE specials:        *)
(* <<1,0,0>> = +inf, <<-1,0,0>> = -inf, <<0,0,0>> = nan.  Rounding is not  *)
(* modelled ("within tolerance" in the text is exact equality here).       *)
(* Logarithms are kept symbolic: a value of the form (k/2)*ln(a) + q is    *)
(* the triple <<k, a, q>> (a a positive rational, q a number); two such    *)
(* values with rational a, q are equal as reals iff their canonical forms  *)
(* <<1, a^k, q>> are equal.                                                *)
(***************************************************************************)
EXTENDS Integers, Sequences, FiniteSets, TLC

---------------------------------------------------------------------------
(* Exact arithmetic standing for numpy float64 / complex128 arithmetic.    *)

Abs(n) == IF n < 0 THEN -n ELSE n

RECURSIVE GCD(_, _)
GCD(m, n) == IF n = 0 THEN m ELSE GCD(n, m % n)

Norm3(a, b, d) ==
    LET g == GCD(GCD(Abs(a), Abs(b)), d)
    IN  <<a \div g, b \div g, d \div g>>

Zero   == <<0, 0, 1>>
One    == <<1, 0, 1>>
Inf    == <<1, 0, 0>>
NegInf == <<-1, 0, 0>>
NaN    == <<0, 0, 0>>

Int2C(n)   == <<n, 0, 1>>
Rat(n, d)  == Norm3(n, 0, d)
IsFinite(z) == z[3] # 0
IsNaN(z)    == z = NaN
IsReal(z)   == z[2] = 0
Sign(z)     == IF z[1] > 0 THEN 1 ELSE IF z[1] < 0 THEN -1 ELSE 0

CNeg(z)  == <<-z[1], -z[2], z[3]>>
CConj(z) == <<z[1], -z[2], z[3]>>
CReal(z) == IF IsFinite(z) THEN Norm3(z[1], 0, z[3]) ELSE z

(* Sums and products reduce by common factors before multiplying.          *)
CAdd(x, y) ==
    IF IsFinite(x) /\ IsFinite(y)
    THEN LET g == GCD(x[3], y[3])
             u == y[3] \div g
             v == x[3] \div g
         IN  Norm3(x[1]*u + y[1]*v, x[2]*u + y[2]*v, x[3]*u)
    ELSE IF IsNaN(x) \/ IsNaN(y) THEN NaN
    ELSE IF ~IsFinite(x) /\ ~IsFinite(y)
         THEN (IF x = y THEN x ELSE NaN)
    ELSE IF IsFinite(x) THEN y ELSE x

CMul(x, y) ==
    IF IsFinite(x) /\ IsFinite(y)
    THEN LET g == GCD(GCD(Abs(x[1]), Abs(x[2])), y[3])
             h == GCD(GCD(Abs(y[1]), Abs(y[2])), x[3])
             a == x[1] \div g
             b == x[2] \div g
             c == y[1] \div h
             d == y[2] \div h
         IN  Norm3(a*c - b*d, a*d + b*c, (x[3] \div h) * (y[3] \div g))
    ELSE IF IsNaN(x) \/ IsNaN(y) THEN NaN
    ELSE IF ~IsReal(x) \/ ~IsReal(y) THEN NaN
    ELSE IF Sign(x) * Sign(y) > 0 THEN Inf
    ELSE IF Sign(x) * Sign(y) < 0 THEN NegInf
    ELSE NaN

CSub(x, y) == CAdd(x, CNeg(y))

(* numpy true division: x/0 is +-inf (nan for 0/0), with a warning only.   *)
CDiv(x, y) ==
    IF IsFinite(x) /\ IsFinite(y)
    THEN IF y = Zero
         THEN (IF ~IsReal(x) THEN NaN
               ELSE IF Sign(x) > 0 THEN Inf
               ELSE IF Sign(x) < 0 THEN NegInf ELSE NaN)
         ELSE \* 1/y = d*(a - b*i) / (g*(a^2 + b^2)) for y = g*(a + b*i)/d
              LET g == GCD(Abs(y[1]), Abs(y[2]))
                  a == y[1] \div g
                  b == y[2] \div g
              IN  CMul(x, Norm3(a * y[3], -b * y[3], g * (a*a + b*b)))
    ELSE IF IsNaN(x) \/ IsNaN(y) THEN NaN
    ELSE IF ~IsFinite(x) /\ ~IsFinite(y) THEN NaN
    ELSE IF IsFinite(y) THEN CMul(x, Int2C(IF Sign(y) < 0 THEN -1 ELSE 1))
    ELSE Zero

RECURSIVE CPow(_, _)
CPow(x, n) == IF n = 0 THEN One
              ELSE IF n < 0 THEN CDiv(One, CPow(x, -n))
              ELSE CMul(x, CPow(x, n - 1))

(* 10.**x for an integer-valued x (log-uniform priors).                    *)
Pow10(x) == CPow(Int2C(10), x[1])

---------------------------------------------------------------------------
(* Vectors are functions on 0..n-1 (numpy's 0-based indexing), matrices    *)
(* are vectors of rows.                                                    *)

Len0(v)    == Cardinality(DOMAIN v)
Idx(n)     == 0 .. (n - 1)
Slice(v, lo, hi) == [i \in Idx(hi - lo) |-> v[lo + i]]

RECURSIVE SumTo(_, _)
SumTo(v, n) == IF n = 0 THEN Zero ELSE CAdd(SumTo(v, n - 1), v[n - 1])
VSum(v)     == SumTo(v, Len0(v))

AllFinite(v)    == \A i \in DOMAIN v : IsFinite(v[i])
MatFinite(M)    == \A i \in DOMAIN M : AllFinite(M[i])

(* np.dot(a.conjugate().T, b) *)
VdotConj(a, b)  == VSum([i \in DOMAIN a |-> CMul(CConj(a[i]), b[i])])
(* np.dot(M, v) *)
MatVec(M, v)    == [i \in DOMAIN M |-> VSum([j \in DOMAIN v |-> CMul(M[i][j], v[j])])]
(* M / s, v / s *)
MatDivS(M, s)   == [i \in DOMAIN M |-> [j \in DOMAIN M[i] |-> CDiv(M[i][j], s)]]
VecDivS(v, s)   == [i \in DOMAIN v |-> CDiv(v[i], s)]
SubMatrix(M, lo, hi) == [i \in Idx(hi - lo) |-> [j \in Idx(hi - lo) |-> M[lo + i][lo + j]]]

---------------------------------------------------------------------------
(* Dense linear algebra used by the solver.                                *)

Identity(n) == [i \in Idx(n) |-> [j \in Idx(n) |-> IF i = j THEN One ELSE Zero]]
Augment(A, B) ==
    LET n == Len0(A)
    IN  [i \in Idx(n) |-> [j \in Idx(2 * n) |-> IF j < n THEN A[i][j] ELSE B[i][j - n]]]
MinOf(S) == CHOOSE m \in S : \A o \in S : m <= o

(* Gauss-Jordan elimination of the n x m matrix A from column k on; the    *)
(* result is <<>> as soon as a column has no pivot (exact singularity).    *)
RECURSIVE GaussJordan(_, _, _, _)
GaussJordan(A, n, m, k) ==
    IF k = n THEN A
    ELSE LET piv == {r \in k .. (n - 1) : A[r][k] # Zero}
         IN  IF piv = {} THEN <<>>
             ELSE LET pr   == MinOf(piv)
                      S    == [r \in Idx(n) |-> IF r = k THEN A[pr]
                                                ELSE IF r = pr THEN A[k] ELSE A[r]]
                      pin  == CDiv(One, S[k][k])
                      rowk == [j \in Idx(m) |-> CMul(S[k][j], pin)]
                      N    == [r \in Idx(n) |->
                                 IF r = k THEN rowk
                                 ELSE IF S[r][k] = Zero THEN S[r]
                                 ELSE [j \in Idx(m) |->
                                         CSub(S[r][j], CMul(S[r][k], rowk[j]))]]
                  IN  GaussJordan(N, n, m, k + 1)

(* scipy.linalg.inv(a, check_finite=True): ValueError on inf/nan entries,  *)
(* LinAlgError on a singular matrix, else the inverse.                     *)
InverseFrom(n, R) ==
    IF R = <<>> THEN [exc |-> "LinAlgError", val |-> <<>>]
    ELSE [exc |-> "none", val |-> [i \in Idx(n) |-> [j \in Idx(n) |-> R[i][n + j]]]]
scipy_linalg_inv(A) ==
    IF ~MatFinite(A) THEN [exc |-> "ValueError", val |-> <<>>]
    ELSE InverseFrom(Len0(A),
                     GaussJordan(Augment(A, Identity(Len0(A))), Len0(A), 2 * Len0(A), 0))

(* Determinant by elimination with row exchanges (LU), as LAPACK getrf.    *)
RECURSIVE DetLU(_, _, _, _)
DetLU(A, n, k, acc) ==
    IF k = n THEN acc
    ELSE LET piv == {r \in k .. (n - 1) : A[r][k] # Zero}
         IN  IF piv = {} THEN Zero
             ELSE LET pr == MinOf(piv)
                      S  == [r \in Idx(n) |-> IF r = k THEN A[pr]
                                              ELSE IF r = pr THEN A[k] ELSE A[r]]
                      N  == [r \in Idx(n) |->
                               IF r <= k \/ S[r][k] = Zero THEN S[r]
                               ELSE LET f == CDiv(S[r][k], S[k][k])
                                    IN  [j \in Idx(n) |-> CSub(S[r][j], CMul(f, S[k][j]))]]
                      sg == IF pr = k THEN One ELSE Int2C(-1)
                  IN  DetLU(N, n, k + 1, CMul(acc, CMul(sg, S[k][k])))
Det(A) == DetLU(A, Len0(A), 0, One)

(* |z| of a number on the real axis (determinants of Hermitian matrices).  *)
RAbs(z) == IF Sign(z) < 0 THEN CNeg(z) ELSE z
(* Cholesky factorisation A = L L^H as LAPACK/MAGMA zpotrf reports it: the *)
(* squared diagonal of L is the sequence of pivots of the elimination      *)
(* without row exchanges; info = j (1-based) is the first pivot that is    *)
(* not positive (leading minor of order j not positive definite), 0 on     *)
(* success.  det is the product of the pivots, so that                     *)
(* 2*sum(log|diag(L)|) = log(det).                                         *)
RECURSIVE Potrf(_, _, _, _)
Potrf(A, n, k, acc) ==
    IF k = n THEN [info |-> 0, det |-> acc]
    ELSE LET pv == A[k][k]
         IN  IF ~(IsReal(pv) /\ Sign(pv) > 0) THEN [info |-> k + 1, det |-> acc]
             ELSE LET N == [r \in Idx(n) |->
                              IF r <= k \/ A[r][k] = Zero THEN A[r]
                              ELSE LET f == CDiv(A[r][k], pv)
                                   IN  [j \in Idx(n) |-> CSub(A[r][j], CMul(f, A[k][j]))]]
                  IN  Potrf(N, n, k + 1, CMul(acc, pv))

---------------------------------------------------------------------------
(* Symbolic logarithms: <<k, a, q>> is (k/2)*ln(a) + q.                    *)

LLNum(q)  == <<0, One, q>>
LLZero    == LLNum(Zero)
LLIsFinite(v) == IsFinite(v[3])

(* np.log of a real float: -inf at 0, nan below 0 (warnings, no raise).    *)
np_log(r) ==
    IF ~IsFinite(r) THEN (IF r = Inf THEN LLNum(Inf) ELSE LLNum(NaN))
    ELSE IF Sign(r) > 0 /\ IsReal(r) THEN <<2, r, Zero>>
    ELSE IF r = Zero THEN LLNum(NegInf)
    ELSE LLNum(NaN)

LLAdd(v, w) ==
    LET q == CAdd(v[3], w[3])
    IN  IF ~IsFinite(q) THEN LLNum(q)
        ELSE IF v[1] = w[1] THEN <<v[1], CMul(v[2], w[2]), q>>
        ELSE IF v[1] = 0 THEN <<w[1], w[2], q>>
        ELSE IF w[1] = 0 THEN <<v[1], v[2], q>>
        ELSE <<1, CMul(CPow(v[2], v[1]), CPow(w[2], w[1])), q>>

(* s * v for a rational s with s*k an integer.                             *)
LLScale(s, v) ==
    LET q == CMul(s, v[3])
    IN  IF ~IsFinite(q) THEN LLNum(q)
        ELSE <<(v[1] * s[1]) \div s[3], v[2], q>>

LLSub(v, w)  == LLAdd(v, LLScale(Int2C(-1), w))
LLReal(v)    == <<v[1], v[2], CReal(v[3])>>
LLCanon(v)   == IF LLIsFinite(v) THEN <<1, CPow(v[2], v[1]), v[3]>>
                ELSE <<1, One, v[3]>>

RECURSIVE LLSumTo(_, _)
LLSumTo(v, n) == IF n = 0 THEN LLZero ELSE LLAdd(LLSumTo(v, n - 1), v[n - 1])
(* np.sum(np.log(v)) *)
SumLog(v)     == LLSumTo([i \in DOMAIN v |-> np_log(v[i])], Len0(v))
---------------------------------------------------------------------------
(* The evaluator's state.                                                  *)

VARIABLES
    p,        \* the module BayesEoR.Params.params as Likelihood.py reads it
    self,     \* attributes of the PowerSpectrumPosteriorProbability instance
    storage,  \* names of the spectral-grid files present on disk
    pc,       \* stage of the current posterior_probability call
    loc,      \* local variables of the current call
    ret,      \* what the last call returned, or the exception it raised
    other     \* a completed call of a companion evaluator (comparisons)

vars == <<p, self, storage, pc, loc, ret, other>>

None == <<>>

(* Rational stand-ins for the irrational / external factors of the         *)
(* dimensionless normalisation: 2*pi**2 and Cosmology().inst_to_cosmo_vol. *)
TwoPiSq        == 20
InstToCosmoVol == 2

(* Python values returned to the sampler, with their Python type.          *)
PyFloat(v)     == [type |-> "float", val |-> v]
PyFloatList(l) == [type |-> "list", val |-> l]
PyInt(n)       == [type |-> "int", val |-> n]
PyNone         == [type |-> "NoneType", val |-> None]

---------------------------------------------------------------------------
(* calc_physical_dimensionless_power_spectral_normalisation(i_bin)         *)
calc_physical_dimensionless_power_spectral_normalisation(slf, i_bin) ==
    LET volume == CMul(CMul(slf.ps_box_size_ra_Mpc, slf.ps_box_size_dec_Mpc),
                       slf.ps_box_size_para_Mpc)
        dmps_norm == CDiv(CDiv(CPow(slf.k_vals[i_bin], 3), Int2C(TwoPiSq)), volume)
    IN  CMul(dmps_norm, CPow(Int2C(InstToCosmoVol), 2))

(* The indices written by PowerI[:end][start::step] = value.               *)
StridedIndices(n, end, start, step) ==
    {i \in Idx(n) : i < end /\ i >= start /\ (i - start) % step = 0}

(* The normalisation function calc_PowerI selects (lines 377-382).  The    *)
(* class defines no calc_Npix_physical_power_spectrum_normalisation, so    *)
(* looking it up on the instance raises AttributeError.                    *)
power_spectrum_normalisation_func(slf) ==
    IF slf.dimensionless_PS
    THEN "calc_physical_dimensionless_power_spectral_normalisation"
    ELSE "AttributeError"

(* The LSSM seeding of calc_PowerI (lines 328-375): the vector before the  *)
(* k-bin loop.                                                             *)
LSSMSeed(slf, pp, x) ==
    LET q0_index == IF pp.include_instrumental_effects
                    THEN slf.neta \div 2 ELSE (slf.nf \div 2) - 1
        q1_index == slf.neta
        q2_index == slf.neta + 1
        cg_end   == IF slf.use_shg THEN slf.nuv * slf.nf ELSE slf.Npar
        step     == slf.neta + slf.nq
        n        == slf.Npar
        scaling  == calc_physical_dimensionless_power_spectral_normalisation(slf, 0)
        I0 == StridedIndices(n, cg_end, q0_index, step)
        I1 == StridedIndices(n, cg_end, q1_index, step)
        I2 == StridedIndices(n, cg_end, q2_index, step)
        v0 == IF pp.use_LWM_Gaussian_prior THEN CDiv(scaling, x[0])
              ELSE IF slf.inverse_LW_power = Zero
                   THEN slf.inverse_LW_power_zeroth_LW_term
                   ELSE slf.inverse_LW_power
        v1 == IF pp.use_LWM_Gaussian_prior THEN CDiv(scaling, x[1])
              ELSE IF slf.inverse_LW_power = Zero
                   THEN slf.inverse_LW_power_first_LW_term
                   ELSE slf.inverse_LW_power
        v2 == IF pp.use_LWM_Gaussian_prior THEN CDiv(scaling, x[2])
              ELSE IF slf.inverse_LW_power = Zero
                   THEN slf.inverse_LW_power_second_LW_term
                   ELSE slf.inverse_LW_power
    IN  [i \in Idx(n) |->
            IF slf.use_shg /\ i >= cg_end THEN slf.inverse_LW_power
            ELSE IF i \in I2 THEN v2
            ELSE IF i \in I1 THEN v1
            ELSE IF i \in I0 THEN v0
            ELSE Zero]

Fourier_mode_start_index(pp) == IF pp.use_LWM_Gaussian_prior THEN 3 ELSE 0

(* The k-bin loop of calc_PowerI (lines 385-391): bins are assigned in     *)
(* index order, a later bin overwriting an earlier one.                    *)
RECURSIVE BinLoop(_, _, _, _, _)
BinLoop(slf, PowerI, x, start, n_bins) ==
    IF n_bins = 0 THEN PowerI
    ELSE LET prev  == BinLoop(slf, PowerI, x, start, n_bins - 1)
             i_bin == n_bins - 1
             val   == CDiv(calc_physical_dimensionless_power_spectral_normalisation(slf, i_bin),
                           x[start + i_bin])
         IN  [i \in DOMAIN prev |->
                 IF i \in slf.k_cube_voxels_in_bin[i_bin] THEN val ELSE prev[i]]

(* A variant whose k-bin entries are normalisation / (x + 1).              *)
calc_PowerI_shifted(slf, pp, x) ==
    LET start  == Fourier_mode_start_index(pp)
        n_bins == Len0(slf.k_cube_voxels_in_bin)
    IN  IF pp.use_LWM_Gaussian_prior /\ Len0(x) < 3
        THEN [exc |-> "IndexError", val |-> None]
        ELSE IF power_spectrum_normalisation_func(slf) = "AttributeError"
        THEN [exc |-> "AttributeError", val |-> None]
        ELSE IF Len0(x) < start + n_bins
        THEN [exc |-> "IndexError", val |-> None]
        ELSE [exc |-> "none",
              val |-> BinLoop(slf, LSSMSeed(slf, pp, x),
                              [i \in DOMAIN x |-> CAdd(x[i], One)], start, n_bins)]
(* calc_PowerI(x): the vector, or the exception it raises.                 *)
calc_PowerI(slf, pp, x) ==
    LET start  == Fourier_mode_start_index(pp)
        n_bins == Len0(slf.k_cube_voxels_in_bin)
    IN  IF pp.use_LWM_Gaussian_prior /\ Len0(x) < 3
        THEN [exc |-> "IndexError", val |-> None]
        ELSE IF power_spectrum_normalisation_func(slf) = "AttributeError"
        THEN [exc |-> "AttributeError", val |-> None]
        ELSE IF Len0(x) < start + n_bins
        THEN [exc |-> "IndexError", val |-> None]
        ELSE [exc |-> "none",
              val |-> BinLoop(slf, LSSMSeed(slf, pp, x), x, start, n_bins)]
---------------------------------------------------------------------------
(* The linear-system solver.                                               *)

(* What the triangular solve on a failed factor can leave behind: the      *)
(* factor's content after a reported failure is unspecified, the solve     *)
(* divides by its diagonal.                                                *)
GarbageKinds == {"finite", "nonfinite"}
GarbageVector(n, kind) == [i \in Idx(n) |-> IF kind = "finite" THEN Zero ELSE NaN]

(* The solution of A y = b for a nonsingular A.                            *)
LastColumn(n, R) == [i \in Idx(n) |-> R[i][n]]
SolveExact(A, b) ==
    LastColumn(Len0(A),
               GaussJordan([i \in Idx(Len0(A)) |-> [j \in Idx(Len0(A) + 1) |->
                               IF j < Len0(A) THEN A[i][j] ELSE b[i]]],
                           Len0(A), Len0(A) + 1, 0))

(* calc_SigmaI_dbar, CPU branch (lines 611-620), given scipy.linalg.inv's  *)
(* outcome.  flag is the array left in self.GPU_error_flag, <<>> when the  *)
(* branch does not write it.                                               *)
calc_SigmaI_dbar_CPU(SigmaI, dbar_) ==
    IF SigmaI.exc # "none"
    THEN [exc |-> SigmaI.exc, SigmaI_dbar |-> None, logdet |-> None, flag |-> None]
    ELSE [exc |-> "none", SigmaI_dbar |-> MatVec(SigmaI.val, dbar_),
          logdet |-> None, flag |-> None]

(* calc_SigmaI_dbar, accelerated branch (lines 622-654), given the         *)
(* factorisation's outcome f.  A factor that keeps an inf/nan makes        *)
(* cho_solve(check_finite) raise; after a failed factorisation logdet is   *)
(* +inf and the solution is whatever the triangular solve left.            *)
calc_SigmaI_dbar_GPU(Sigma, dbar_, garbage, f) ==
    IF ~MatFinite(Sigma) \/ ~AllFinite(dbar_)
    THEN [exc |-> "ValueError", SigmaI_dbar |-> None, logdet |-> None,
          flag |-> <<f.info>>]
    ELSE IF f.info = 0
    THEN [exc |-> "none", SigmaI_dbar |-> SolveExact(Sigma, dbar_),
          logdet |-> np_log(f.det), flag |-> <<0>>]
    ELSE [exc |-> "none", SigmaI_dbar |-> GarbageVector(Len0(Sigma), garbage),
          logdet |-> LLNum(Inf), flag |-> <<f.info>>]

(* calc_SigmaI_dbar(Sigma, dbar)                                           *)
calc_SigmaI_dbar(pp, Sigma, dbar_, garbage) ==
    IF ~pp.useGPU
    THEN calc_SigmaI_dbar_CPU(scipy_linalg_inv(Sigma), dbar_)
    ELSE calc_SigmaI_dbar_GPU(Sigma, dbar_, garbage, Potrf(Sigma, Len0(Sigma), 0, One))

(* np.linalg.slogdet(Sigma)[1]: log|det Sigma| (det of a Hermitian matrix  *)
(* lies on the real axis).                                                 *)
slogdet(Sigma) == np_log(RAbs(CReal(Det(Sigma))))

(* add_power_to_diagonals(T_Ninv_T_block, PhiI_block)                      *)
add_power_to_diagonals(T_Ninv_T_block, PhiI_block) ==
    [i \in DOMAIN T_Ninv_T_block |-> [j \in DOMAIN T_Ninv_T_block[i] |->
        IF i = j THEN CAdd(T_Ninv_T_block[i][j], PhiI_block[i])
        ELSE T_Ninv_T_block[i][j]]]

(* calc_Sigma_block_diagonals(T_Ninv_T, PhiI): np.split raises when Npar   *)
(* is no multiple of nuv, the sum raises when a PhiI block and a T_Ninv_T  *)
(* block differ in size.                                                   *)
calc_Sigma_block_diagonals(slf, T_Ninv_T, PhiI) ==
    LET b == slf.neta + slf.nq
        m == Len0(PhiI) \div slf.nuv
    IN  IF Len0(PhiI) % slf.nuv # 0 \/ m # b
        THEN [exc |-> "ValueError", val |-> None]
        ELSE [exc |-> "none",
              val |-> [i_block \in Idx(slf.nuv) |->
                         add_power_to_diagonals(
                             SubMatrix(T_Ninv_T, b * i_block, b * (i_block + 1)),
                             Slice(PhiI, m * i_block, m * (i_block + 1)))]]

(* len(np.shape(block_T_Ninv_T)) > 1 *)
do_block_diagonal_inversion(block_T_Ninv_T) == block_T_Ninv_T # None

Flatten(blocks, m) ==
    [i \in Idx(Len0(blocks) * m) |-> blocks[i \div m][i % m]]

RECURSIVE LastFlag(_, _)
LastFlag(rs, n) == IF n = 0 THEN None
                   ELSE IF rs[n - 1].flag # None THEN rs[n - 1].flag
                   ELSE LastFlag(rs, n - 1)

(* The whole-matrix Sigma of calc_SigmaI_dbar_wrapper (lines 540-544).     *)
(* A variant that divides by alpha_prime instead of its square.            *)
ScaledByNoise_linear(slf, M) ==
    IF slf.intrinsic_noise_fitting THEN MatDivS(M, slf.alpha_prime) ELSE M
ScaledByNoise(slf, M) ==
    IF slf.intrinsic_noise_fitting THEN MatDivS(M, CPow(slf.alpha_prime, 2)) ELSE M
AddDiagonal(Sigma, PhiI) ==
    [i \in DOMAIN Sigma |-> [j \in DOMAIN Sigma[i] |->
        IF i = j THEN CAdd(Sigma[i][j], PhiI[i]) ELSE Sigma[i][j]]]
BuildSigma(slf, T, PhiI) == AddDiagonal(ScaledByNoise(slf, T), PhiI)

SolveFail(e, flg) ==
    [exc |-> e, kind |-> "none", Sigma |-> None, SigmaI_dbar |-> None,
     dbarSigmaIdbar |-> None, logSigmaDet |-> None, flag |-> flg]

(* A variant that tests the error flag once, after the last block.         *)
BlockResults_last_flag(slf, pp, dbar_, Sb, rs) ==
    LET m   == Len0(dbar_) \div slf.nuv
        bad == {i \in Idx(slf.nuv) : rs[i].exc # "none"}
        y   == Flatten([i \in Idx(slf.nuv) |-> rs[i].SigmaI_dbar], m)
    IN  IF bad # {}
        THEN SolveFail(rs[MinOf(bad)].exc, LastFlag(rs, MinOf(bad) + 1))
        ELSE [exc |-> "none", kind |-> "tuple", Sigma |-> Sb.val,
              SigmaI_dbar |-> y,
              dbarSigmaIdbar |-> VdotConj(dbar_, y),
              logSigmaDet |->
                  IF ~pp.useGPU
                  THEN LLSumTo([i \in Idx(slf.nuv) |-> slogdet(Sb.val[i])], slf.nuv)
                  ELSE IF LastFlag(rs, slf.nuv) # <<0>> THEN LLNum(Inf)
                  ELSE LLSumTo([i \in Idx(slf.nuv) |->
                                   IF rs[i].flag = <<0>> THEN rs[i].logdet
                                   ELSE LLNum(Zero)], slf.nuv),
              flag |-> LastFlag(rs, slf.nuv)]
(* Block path, lines 486-530, given the per-block results rs: the list     *)
(* comprehension stops at the first block that raises.                     *)
BlockResults(slf, pp, dbar_, Sb, rs) ==
    LET m   == Len0(dbar_) \div slf.nuv
        bad == {i \in Idx(slf.nuv) : rs[i].exc # "none"}
        y   == Flatten([i \in Idx(slf.nuv) |-> rs[i].SigmaI_dbar], m)
    IN  IF bad # {}
        THEN SolveFail(rs[MinOf(bad)].exc, LastFlag(rs, MinOf(bad) + 1))
        ELSE [exc |-> "none", kind |-> "tuple", Sigma |-> Sb.val,
              SigmaI_dbar |-> y,
              dbarSigmaIdbar |-> VdotConj(dbar_, y),
              logSigmaDet |->
                  LLSumTo([i \in Idx(slf.nuv) |->
                              IF pp.useGPU THEN rs[i].logdet ELSE slogdet(Sb.val[i])],
                          slf.nuv),
              flag |-> LastFlag(rs, slf.nuv)]

(* Block path, lines 470-485, given calc_Sigma_block_diagonals' outcome.   *)
BlockPath(slf, pp, dbar_, garbage, Sb) ==
    IF Sb.exc # "none" THEN SolveFail(Sb.exc, None)
    ELSE BlockResults(slf, pp, dbar_, Sb,
             [i_block \in Idx(slf.nuv) |->
                 calc_SigmaI_dbar(pp, Sb.val[i_block],
                     Slice(dbar_, (Len0(dbar_) \div slf.nuv) * i_block,
                                  (Len0(dbar_) \div slf.nuv) * (i_block + 1)),
                     garbage)])

(* Whole-matrix path, lines 564-578, given calc_SigmaI_dbar's outcome r.   *)
WholeResults(pp, Sigma, dbar_, r) ==
    IF r.exc # "none" THEN SolveFail(r.exc, r.flag)
    ELSE [exc |-> "none", kind |-> "tuple", Sigma |-> Sigma,
          SigmaI_dbar |-> r.SigmaI_dbar,
          dbarSigmaIdbar |-> VdotConj(dbar_, r.SigmaI_dbar),
          logSigmaDet |-> IF pp.useGPU THEN r.logdet ELSE slogdet(Sigma),
          flag |-> r.flag]

(* Whole-matrix path, lines 533-563, given Sigma; with return_Sigma the    *)
(* bare matrix is returned.                                                *)
WholePath(slf, pp, dbar_, garbage, Sigma) ==
    IF slf.return_Sigma
    THEN [exc |-> "none", kind |-> "Sigma", Sigma |-> Sigma,
          SigmaI_dbar |-> None, dbarSigmaIdbar |-> None,
          logSigmaDet |-> None, flag |-> None]
    ELSE WholeResults(pp, Sigma, dbar_, calc_SigmaI_dbar(pp, Sigma, dbar_, garbage))

(* calc_SigmaI_dbar_wrapper after PhiI is built (lines 469-578).  kind is  *)
(* "tuple" for the four results, "Sigma" for the return_Sigma early        *)
(* return.                                                                 *)
SolveStage(slf, pp, PhiI, T, dbar_, blocks, garbage) ==
    IF do_block_diagonal_inversion(blocks)
    THEN BlockPath(slf, pp, dbar_, garbage,
                   calc_Sigma_block_diagonals(slf, ScaledByNoise(slf, T), PhiI))
    ELSE WholePath(slf, pp, dbar_, garbage, BuildSigma(slf, T, PhiI))
---------------------------------------------------------------------------
(* posterior_probability, stage by stage.                                  *)

(* np.round(r, 0) of a real rational: round half to even.                  *)
np_round(r) ==
    LET fl == r[1] \div r[3]
        fr == r[1] - fl * r[3]
    IN  IF 2 * fr < r[3] THEN Int2C(fl)
        ELSE IF 2 * fr > r[3] THEN Int2C(fl + 1)
        ELSE IF fl % 2 = 0 THEN Int2C(fl) ELSE Int2C(fl + 1)

(* The grid-rounded spectral indices (lines 694-701).                      *)
GridPoint(pp, pl_params) ==
    LET b1 == pl_params[0]
        b2 == CAdd(CAdd(b1, pp.pl_grid_spacing),
                   CMul(CSub(CSub(pp.pl_max, b1), pp.pl_grid_spacing), pl_params[1]))
    IN  <<CMul(pp.pl_grid_spacing, np_round(CDiv(b1, pp.pl_grid_spacing))),
          CMul(pp.pl_grid_spacing, np_round(CDiv(b2, pp.pl_grid_spacing)))>>

(* The names of the two files looked up for a grid point (lines 706-728).  *)
T_Ninv_T_file_path(g) == <<"T_Ninv_T", g[1], g[2]>>
dbar_file_path(g)     == <<"dbar", g[1], g[2]>>

(* The arrays stored for a grid point: the content of the files is the     *)
(* builder's, here a fixed function of the grid point and the base arrays. *)
StoredT_Ninv_T(slf, g) ==
    [i \in DOMAIN slf.T_Ninv_T |-> [j \in DOMAIN slf.T_Ninv_T |->
        IF i = j THEN CAdd(slf.T_Ninv_T[i][j], g[1]) ELSE slf.T_Ninv_T[i][j]]]
Stored_dbar(slf, g) == [i \in DOMAIN slf.dbar |-> CMul(slf.dbar[i], g[2])]

DropFirst(v, k) == [i \in Idx(Len0(v) - k) |-> v[i + k]]
TakeFirst(v, k) == [i \in Idx(IF k < Len0(v) THEN k ELSE Len0(v)) |-> v[i]]

(* Lines 743-759 for the x, T_Ninv_T and dbar left by the spectral step;   *)
(* ap2 is alpha_prime**2.0.                                                *)
(* A variant that leaves self.alpha_prime as the previous call set it.     *)
UnpackNoise_stale(slf, x1, T1, d1, ap2) ==
    LET nf == slf.intrinsic_noise_fitting
        x2 == IF nf THEN DropFirst(x1, 1) ELSE x1
    IN  [exc |-> "none",
         slf |-> [slf EXCEPT !.count = @ + 1],
         loc |-> [x |-> IF slf.log_priors THEN [i \in DOMAIN x2 |-> Pow10(x2[i])]
                        ELSE x2,
                  T_Ninv_T |-> T1,
                  dbar |-> IF nf THEN VecDivS(d1, ap2) ELSE d1,
                  d_Ninv_d |-> IF nf THEN CDiv(slf.d_Ninv_d, ap2) ELSE None,
                  log_det_N |-> IF nf THEN LLScale(Int2C(slf.Ndat), np_log(ap2))
                                ELSE None]]
(* A variant that converts x by 10**x before alpha_prime is stripped.      *)
UnpackNoise_log_alpha(slf, x1, T1, d1, ap2) ==
    LET nf == slf.intrinsic_noise_fitting
        xl == IF slf.log_priors THEN [i \in DOMAIN x1 |-> Pow10(x1[i])] ELSE x1
    IN  [exc |-> "none",
         slf |-> [slf EXCEPT !.alpha_prime = IF nf THEN xl[0] ELSE @,
                             !.count = @ + 1],
         loc |-> [x |-> IF nf THEN DropFirst(xl, 1) ELSE xl,
                  T_Ninv_T |-> T1,
                  dbar |-> IF nf THEN VecDivS(d1, ap2) ELSE d1,
                  d_Ninv_d |-> IF nf THEN CDiv(slf.d_Ninv_d, ap2) ELSE None,
                  log_det_N |-> IF nf THEN LLScale(Int2C(slf.Ndat), np_log(ap2))
                                ELSE None]]
UnpackNoise(slf, x1, T1, d1, ap2) ==
    LET nf == slf.intrinsic_noise_fitting
        x2 == IF nf THEN DropFirst(x1, 1) ELSE x1
    IN  [exc |-> "none",
         slf |-> [slf EXCEPT !.alpha_prime = IF nf THEN x1[0] ELSE @,
                             !.count = @ + 1],
         loc |-> [x |-> IF slf.log_priors THEN [i \in DOMAIN x2 |-> Pow10(x2[i])]
                        ELSE x2,
                  T_Ninv_T |-> T1,
                  dbar |-> IF nf THEN VecDivS(d1, ap2) ELSE d1,
                  d_Ninv_d |-> IF nf THEN CDiv(slf.d_Ninv_d, ap2) ELSE None,
                  log_det_N |-> IF nf THEN LLScale(Int2C(slf.Ndat), np_log(ap2))
                                ELSE None]]

(* A variant that counts the call before it looks the grid point up.       *)
UnpackSpectral_counted(slf, files, x_arg, g) ==
    IF T_Ninv_T_file_path(g) \notin files \/ dbar_file_path(g) \notin files
    THEN [exc |-> "OSError",
          slf |-> [slf EXCEPT !.PrintFlag = TRUE, !.count = @ + 1],
          loc |-> [x |-> DropFirst(x_arg, 2), T_Ninv_T |-> slf.T_Ninv_T,
                   dbar |-> slf.dbar, d_Ninv_d |-> None, log_det_N |-> None]]
    ELSE UnpackNoise(slf, DropFirst(x_arg, 2), StoredT_Ninv_T(slf, g),
                     Stored_dbar(slf, g),
                     CPow(IF slf.intrinsic_noise_fitting THEN x_arg[2] ELSE One, 2))
(* Lines 684-741 for the grid point g: a missing file raises OSError       *)
(* outside the try block, with self.Print still forced to True.            *)
UnpackSpectral(slf, files, x_arg, g) ==
    IF T_Ninv_T_file_path(g) \notin files \/ dbar_file_path(g) \notin files
    THEN [exc |-> "OSError",
          slf |-> [slf EXCEPT !.PrintFlag = TRUE],
          loc |-> [x |-> DropFirst(x_arg, 2), T_Ninv_T |-> slf.T_Ninv_T,
                   dbar |-> slf.dbar, d_Ninv_d |-> None, log_det_N |-> None]]
    ELSE UnpackNoise(slf, DropFirst(x_arg, 2), StoredT_Ninv_T(slf, g),
                     Stored_dbar(slf, g),
                     CPow(IF slf.intrinsic_noise_fitting THEN x_arg[2] ELSE One, 2))

(* Lines 680-760: unpack x.  The result holds the new instance attributes, *)
(* the locals, and the exception raised, if any.                           *)
UnpackStage(slf, pp, files, x_arg) ==
    IF slf.fit_for_spectral_model_parameters
    THEN UnpackSpectral(slf, files, x_arg, GridPoint(pp, TakeFirst(x_arg, 2)))
    ELSE UnpackNoise(slf, x_arg, slf.T_Ninv_T, slf.dbar,
                     CPow(IF slf.intrinsic_noise_fitting THEN x_arg[0] ELSE One, 2))

(* logPhiDet = -1 * np.sum(np.log(PhiI)).real (line 785)                   *)
logPhiDet(PhiI) == LLScale(Int2C(-1), LLReal(SumLog(PhiI)))

(* A variant that subtracts the quadratic term.                            *)
MargLogL_minus_quadratic(logSigmaDet, logPhiDet_, dbarSigmaIdbar) ==
    LLAdd(LLAdd(LLScale(Rat(-1, 2), logSigmaDet), LLScale(Rat(-1, 2), logPhiDet_)),
          LLScale(Rat(-1, 2), LLNum(dbarSigmaIdbar)))
(* MargLogL = -0.5*logSigmaDet - 0.5*logPhiDet + 0.5*dbarSigmaIdbar        *)
MargLogL(logSigmaDet, logPhiDet_, dbarSigmaIdbar) ==
    LLAdd(LLAdd(LLScale(Rat(-1, 2), logSigmaDet), LLScale(Rat(-1, 2), logPhiDet_)),
          LLScale(Rat(1, 2), LLNum(dbarSigmaIdbar)))

(* The sum of the logs of the uniform-prior amplitudes (lines 791-798).    *)
UniformPriorTerm(slf, xx, M) ==
    IF slf.n_uniform_prior_k_bins > 0 \/ slf.n_uniform_prior_k_bins = -1
    THEN LLAdd(M, SumLog(IF slf.n_uniform_prior_k_bins > 0
                         THEN TakeFirst(xx, slf.n_uniform_prior_k_bins) ELSE xx))
    ELSE M

(* A variant that subtracts the data term only when alpha_prime is not 1.  *)
NoiseTerm_unless_one(slf, M, d_Ninv_d, log_det_N) ==
    IF slf.intrinsic_noise_fitting /\ slf.alpha_prime # One
    THEN LLAdd(LLAdd(M, LLScale(Rat(-1, 2), LLNum(d_Ninv_d))),
               LLScale(Rat(-1, 2), log_det_N))
    ELSE M
(* MargLogL - 0.5*d_Ninv_d - 0.5*log_det_N (lines 799-800)                 *)
NoiseTerm(slf, M, d_Ninv_d, log_det_N) ==
    IF slf.intrinsic_noise_fitting
    THEN LLAdd(LLAdd(M, LLScale(Rat(-1, 2), LLNum(d_Ninv_d))),
               LLScale(Rat(-1, 2), log_det_N))
    ELSE M

(* Lines 785-801: the score.                                               *)
ScoreStage(slf, xx, PhiI, logSigmaDet, dbarSigmaIdbar, d_Ninv_d, log_det_N) ==
    LLReal(NoiseTerm(slf,
                     UniformPriorTerm(slf, xx,
                         MargLogL(logSigmaDet, logPhiDet(PhiI), dbarSigmaIdbar)),
                     d_Ninv_d, log_det_N))

---------------------------------------------------------------------------
(* The inputs of the constructor, as run_EoR.py assembles them.            *)

(* Model-cube geometries: nuv (u,v) pixels, each with neta + nq            *)
(* coefficients; bins is k_cube_voxels_in_bin.                             *)
Geometry(name) ==
    CASE name = "A" ->  \* image-domain model, quadratic-in-frequency LSSM
           [inst |-> FALSE, nf |-> 4, neta |-> 2, nq |-> 2, nuv |-> 2, nu |-> 3,
            Npar |-> 8, use_shg |-> FALSE,
            bins |-> [i \in Idx(2) |-> IF i = 0 THEN {0} ELSE {4}]]
      [] name = "B" ->  \* image-domain model without LSSM basis vectors
           [inst |-> FALSE, nf |-> 3, neta |-> 3, nq |-> 0, nuv |-> 2, nu |-> 3,
            Npar |-> 6, use_shg |-> FALSE,
            bins |-> [i \in Idx(2) |-> IF i = 0 THEN {1, 4} ELSE {2, 5}]]
      [] name = "C" ->  \* instrumental model
           [inst |-> TRUE, nf |-> 3, neta |-> 3, nq |-> 0, nuv |-> 2, nu |-> 3,
            Npar |-> 6, use_shg |-> FALSE,
            bins |-> [i \in Idx(2) |-> IF i = 0 THEN {0, 3} ELSE {2, 5}]]
      [] name = "D" ->  \* instrumental model with a subharmonic grid
           [inst |-> TRUE, nf |-> 2, neta |-> 2, nq |-> 0, nuv |-> 2, nu |-> 3,
            Npar |-> 6, use_shg |-> TRUE,
            bins |-> [i \in Idx(2) |-> IF i = 0 THEN {0} ELSE {2}]]

(* T_Ninv_T: Hermitian, positive semi-definite.  "diag", "herm" and "ones" *)
(* are block-diagonal with nuv blocks of neta + nq rows; "full" couples    *)
(* the (u,v) pixels (the instrument's response mixes them).                *)
(* "first" and "last" have one singular block, the first or the last, and  *)
(* positive definite blocks elsewhere.                                     *)
T_Ninv_T(kind, g) ==
    LET b == g.neta + g.nq
        same(i, j) == (i \div b) = (j \div b)
    IN  [i \in Idx(g.Npar) |-> [j \in Idx(g.Npar) |->
          CASE kind = "diag" -> IF i = j THEN Int2C(2) ELSE Zero
            [] kind = "herm" -> IF i = j THEN Int2C(3)
                                ELSE IF same(i, j) /\ i % b = 0 /\ j % b = 1 THEN <<0, 1, 1>>
                                ELSE IF same(i, j) /\ i % b = 1 /\ j % b = 0 THEN <<0, -1, 1>>
                                ELSE Zero
            [] kind = "ones" -> IF same(i, j) THEN One ELSE Zero
            [] kind = "first" -> IF i \div b = 0 THEN (IF same(i, j) THEN One ELSE Zero)
                                 ELSE IF i = j THEN Int2C(2) ELSE Zero
            [] kind = "last" -> IF i \div b = g.nuv - 1
                                THEN (IF same(i, j) THEN One ELSE Zero)
                                ELSE IF i = j THEN Int2C(2) ELSE Zero
            [] kind = "full" -> IF i = j THEN Int2C(3)
                                ELSE IF i % b = b - 1 /\ j % b = b - 1 THEN One
                                ELSE Zero]]

(* dbar = T^H Ninv d                                                       *)
dbar(kind, g) ==
    [i \in Idx(g.Npar) |->
        IF kind = "ones" THEN One
        ELSE IF i % 2 = 0 THEN <<1, 1, 1>> ELSE <<1, -1, 1>>]

(* The block list a caller can pass as block_T_Ninv_T.                     *)
block_T_Ninv_T(T, g) ==
    LET b == g.neta + g.nq
    IN  [k \in 1 .. g.nuv |-> SubMatrix(T, b * (k - 1), b * k)]

(* The grid files present in the storage directory.                        *)
GridFiles(which) ==
    LET pts == IF which = "all"
               THEN {<<Int2C(a), Int2C(b)>> : a \in 0 .. 1, b \in 1 .. 3}
               ELSE {<<Int2C(0), Int2C(1)>>}
    IN  {T_Ninv_T_file_path(g) : g \in pts}
        \cup {dbar_file_path(g) : g \in pts \ {<<Int2C(1), Int2C(3)>>}}

BaseConfig ==
    [geom |-> "C", T |-> "herm", d |-> "cplx", useGPU |-> FALSE,
     log_priors |-> FALSE, dimensionless_PS |-> TRUE,
     noise |-> FALSE, spectral |-> FALSE, lwm |-> FALSE,
     n_uniform_prior_k_bins |-> 0, inverse_LW_power |-> One,
     return_Sigma |-> FALSE, files |-> "all"]

(* params.py as the evaluator reads it.                                    *)
Params(c) ==
    [useGPU |-> c.useGPU,
     include_instrumental_effects |-> Geometry(c.geom).inst,
     use_LWM_Gaussian_prior |-> c.lwm,
     pl_grid_spacing |-> One,
     pl_max |-> Int2C(3)]

(* PowerSpectrumPosteriorProbability.__init__ (lines 171-245).             *)
PowerSpectrumPosteriorProbability(c) ==
    LET g == Geometry(c.geom)
    IN  [block_T_Ninv_T |-> IF g.inst THEN None
                            ELSE block_T_Ninv_T(T_Ninv_T(c.T, g), g),
         log_priors |-> c.log_priors,
         dimensionless_PS |-> c.dimensionless_PS,
         inverse_LW_power |-> c.inverse_LW_power,
         inverse_LW_power_zeroth_LW_term |-> Zero,
         inverse_LW_power_first_LW_term |-> Zero,
         inverse_LW_power_second_LW_term |-> Zero,
         PrintFlag |-> FALSE,
         intrinsic_noise_fitting |-> c.noise,
         return_Sigma |-> c.return_Sigma,
         fit_for_spectral_model_parameters |-> c.spectral,
         k_vals |-> [i \in Idx(2) |-> Int2C(i + 1)],
         n_uniform_prior_k_bins |-> c.n_uniform_prior_k_bins,
         ps_box_size_ra_Mpc |-> One,
         ps_box_size_dec_Mpc |-> One,
         ps_box_size_para_Mpc |-> Rat(1, 5),
         use_shg |-> g.use_shg,
         T_Ninv_T |-> T_Ninv_T(c.T, g),
         dbar |-> dbar(c.d, g),
         count |-> 0,
         Npar |-> g.Npar,
         k_cube_voxels_in_bin |-> g.bins,
         nuv |-> g.nuv, nu |-> g.nu, neta |-> g.neta, nf |-> g.nf, nq |-> g.nq,
         Ndat |-> 2,
         d_Ninv_d |-> Int2C(3),
         print_rate |-> 1000,
         alpha_prime |-> One,
         power_spectrum_normalisation_func |-> "unset",
         GPU_error_flag |-> None]
---------------------------------------------------------------------------
(* One call of posterior_probability as a sequence of steps on a frame     *)
(* fr = [self, pc, loc, ret].                                              *)

MaxCalls == 2

NoReturn      == [kind |-> "none", first |-> PyNone, second |-> PyNone, exc |-> "none"]
Returns(a, b) == [kind |-> "return", first |-> a, second |-> b, exc |-> "none"]
Raises(e)     == [kind |-> "raise", first |-> PyNone, second |-> PyNone, exc |-> e]

IdleLoc ==
    [x_arg |-> None, block_T_Ninv_T |-> None, phi |-> None, x |-> None,
     T_Ninv_T |-> None, dbar |-> None, d_Ninv_d |-> None, log_det_N |-> None,
     do_block_diagonal_inversion |-> FALSE, exception |-> "none",
     garbage |-> "none",
     PhiI |-> None, SigmaI_dbar |-> None, dbarSigmaIdbar |-> None,
     logSigmaDet |-> None, logPhiDet |-> None, MargLogL |-> None]

(* Variants of the except clause: one that lets the exception through,    *)
(* one that returns the derived-parameter list with -inf.                  *)
ExceptClause_reraise(fr, e) ==
    [fr EXCEPT !.pc = "RAISED", !.loc.exception = e, !.ret = Raises(e)]
ExceptClause_phi(fr, e) ==
    [fr EXCEPT !.pc = "FAILED", !.loc.exception = e,
               !.ret = Returns(PyFloat(LLCanon(LLNum(NegInf))),
                               PyFloatList(fr.loc.phi))]
(* except Exception as e: ... return -np.inf, -1 (lines 833-838)           *)
ExceptClause(fr, e) ==
    [fr EXCEPT !.pc = "FAILED", !.loc.exception = e,
               !.ret = Returns(PyFloat(LLCanon(LLNum(NegInf))), PyInt(-1))]

(* Entry (lines 656-682).                                                  *)
StepCall(fr, x_arg, blk) ==
    [fr EXCEPT !.pc = "CALLED", !.ret = NoReturn,
               !.loc = [IdleLoc EXCEPT !.x_arg = x_arg, !.block_T_Ninv_T = blk,
                                       !.phi = [i \in Idx(1) |-> Zero],
                                       !.T_Ninv_T = fr.self.T_Ninv_T,
                                       !.dbar = fr.self.dbar]]

(* A variant in which the unpacking sits inside the try block.             *)
AfterUnpack_caught(fr, r) ==
    IF r.exc # "none"
    THEN ExceptClause([fr EXCEPT !.self = r.slf], r.exc)
    ELSE [fr EXCEPT !.pc = "PARAMS_UNPACKED", !.self = r.slf,
                    !.loc.x = r.loc.x, !.loc.T_Ninv_T = r.loc.T_Ninv_T,
                    !.loc.dbar = r.loc.dbar, !.loc.d_Ninv_d = r.loc.d_Ninv_d,
                    !.loc.log_det_N = r.loc.log_det_N,
                    !.loc.do_block_diagonal_inversion =
                        do_block_diagonal_inversion(fr.loc.block_T_Ninv_T)]
(* Lines 684-760, outside the try block.                                   *)
AfterUnpack(fr, r) ==
    IF r.exc # "none"
    THEN [fr EXCEPT !.pc = "RAISED", !.self = r.slf, !.ret = Raises(r.exc),
                    !.loc.exception = r.exc]
    ELSE [fr EXCEPT !.pc = "PARAMS_UNPACKED", !.self = r.slf,
                    !.loc.x = r.loc.x, !.loc.T_Ninv_T = r.loc.T_Ninv_T,
                    !.loc.dbar = r.loc.dbar, !.loc.d_Ninv_d = r.loc.d_Ninv_d,
                    !.loc.log_det_N = r.loc.log_det_N,
                    !.loc.do_block_diagonal_inversion =
                        do_block_diagonal_inversion(fr.loc.block_T_Ninv_T)]
StepUnpack(fr, pp, files) ==
    AfterUnpack(fr, UnpackStage(fr.self, pp, files, fr.loc.x_arg))

(* calc_PowerI, called first thing by calc_SigmaI_dbar_wrapper (line 464); *)
(* the normaliser attribute is bound once line 377 is reached.             *)
AfterBuildPower(fr, pp, r) ==
    LET reached == fr.self.dimensionless_PS
                   /\ ~(pp.use_LWM_Gaussian_prior /\ Len0(fr.loc.x) < 3)
        f1 == IF reached
              THEN [fr EXCEPT !.self.power_spectrum_normalisation_func =
                                  power_spectrum_normalisation_func(fr.self)]
              ELSE fr
    IN  IF r.exc = "none"
        THEN [f1 EXCEPT !.pc = "POWER_BUILT", !.loc.PhiI = r.val]
        ELSE ExceptClause(f1, r.exc)
StepBuildPower(fr, pp) == AfterBuildPower(fr, pp, calc_PowerI(fr.self, pp, fr.loc.x))

(* The rest of calc_SigmaI_dbar_wrapper and the unpacking of its result    *)
(* into four names (lines 765, 772): a bare Sigma of Npar rows does not    *)
(* unpack into four unless Npar = 4.  loc.garbage records which outcome   *)
(* of a solve on a failed factor the call saw.                             *)
AfterSolve(fr, r, garbage) ==
    LET f1 == [fr EXCEPT !.self.GPU_error_flag = IF r.flag = None THEN @ ELSE r.flag,
                         !.loc.garbage = IF r.exc = "none" /\ r.logSigmaDet = LLNum(Inf)
                                         THEN garbage ELSE "none"]
    IN  IF r.exc # "none" THEN ExceptClause(f1, r.exc)
        ELSE IF r.kind = "Sigma" THEN ExceptClause(f1, "ValueError")
        ELSE [f1 EXCEPT !.pc = "SOLVED", !.loc.SigmaI_dbar = r.SigmaI_dbar,
                        !.loc.dbarSigmaIdbar = r.dbarSigmaIdbar,
                        !.loc.logSigmaDet = r.logSigmaDet]
(* The array that the in-place updates of the whole-matrix path write     *)
(* (Sigma[self.Sigma_Diag_Indices] += PhiI at line 544, the factorisation *)
(* at lines 629-630), named by the object that owns it.  The local        *)
(* T_Ninv_T is the instance's own array (line 681) unless the spectral    *)
(* unpacking rebinds it to an array read from storage (lines 714-715).    *)
T_Ninv_T_owner(slf) ==
    IF slf.fit_for_spectral_model_parameters THEN "hf" ELSE "self.T_Ninv_T"
(* A variant in which Sigma is another name for T_Ninv_T.                  *)
Sigma_owner_view(slf, owner) ==
    IF slf.intrinsic_noise_fitting THEN "Sigma" ELSE owner
(* Sigma = T_Ninv_T.copy() (line 540), Sigma = Sigma/alpha_prime**2 (line *)
(* 541-542): a new array either way.                                       *)
Sigma_owner(slf, owner) == "Sigma"
(* What the solve stage leaves in the instance's T_Ninv_T.  The block     *)
(* path builds every block with a sum (line 266), never in place.  The    *)
(* accelerated factorisation overwrites the array line 544 wrote.          *)
InPlaceWrites(fr) ==
    IF ~do_block_diagonal_inversion(fr.loc.block_T_Ninv_T)
       /\ Sigma_owner(fr.self, T_Ninv_T_owner(fr.self)) = "self.T_Ninv_T"
    THEN [fr EXCEPT !.self.T_Ninv_T = AddDiagonal(fr.self.T_Ninv_T, fr.loc.PhiI)]
    ELSE fr
StepSolve(fr, pp, garbage) ==
    AfterSolve(InPlaceWrites(fr), SolveStage(fr.self, pp, fr.loc.PhiI, fr.loc.T_Ninv_T, fr.loc.dbar,
                              fr.loc.block_T_Ninv_T, garbage), garbage)

(* Lines 785-801.                                                          *)
StepScore(fr) ==
    [fr EXCEPT !.pc = "SCORED", !.loc.logPhiDet = logPhiDet(fr.loc.PhiI),
               !.loc.MargLogL =
                   ScoreStage(fr.self, fr.loc.x, fr.loc.PhiI, fr.loc.logSigmaDet,
                              fr.loc.dbarSigmaIdbar, fr.loc.d_Ninv_d,
                              fr.loc.log_det_N)]

(* Lines 824-832: return MargLogL.squeeze()*1.0, phi                       *)
StepReturn(fr) ==
    [fr EXCEPT !.pc = "DONE",
               !.self.print_rate = IF fr.self.nu > 10 THEN 100 ELSE @,
               !.ret = Returns(PyFloat(LLCanon(fr.loc.MargLogL)),
                               PyFloatList(fr.loc.phi))]

(* A whole call, from entry to return or raise.                            *)
RECURSIVE Run(_, _, _, _)
Run(fr, pp, files, garbage) ==
    CASE fr.pc = "CALLED"          -> Run(StepUnpack(fr, pp, files), pp, files, garbage)
      [] fr.pc = "PARAMS_UNPACKED" -> Run(StepBuildPower(fr, pp), pp, files, garbage)
      [] fr.pc = "POWER_BUILT"     -> Run(StepSolve(fr, pp, garbage), pp, files, garbage)
      [] fr.pc = "SOLVED"          -> Run(StepScore(fr), pp, files, garbage)
      [] fr.pc = "SCORED"          -> StepReturn(fr)
      [] OTHER                     -> fr
posterior_probability(slf, pp, files, x_arg, blk, garbage) ==
    Run(StepCall([self |-> slf, pc |-> "IDLE", loc |-> IdleLoc, ret |-> NoReturn],
                 x_arg, blk),
        pp, files, garbage)

---------------------------------------------------------------------------
(* The arguments a sampler passes.                                         *)

Concat0(a, b) ==
    [i \in Idx(Len0(a) + Len0(b)) |-> IF i < Len0(a) THEN a[i] ELSE b[i - Len0(a)]]
Vec1(v)       == [i \in Idx(1) |-> v]
Vec2(v, w)    == [i \in Idx(2) |-> IF i = 0 THEN v ELSE w]

AmplitudeValues(slf) ==
    IF slf.log_priors THEN {Int2C(0), Int2C(1)} ELSE {Int2C(0), Int2C(1), Int2C(2)}
AlphaValues == {One, Int2C(2)}
PlValues    == {Vec2(Zero, Zero), Vec2(One, Zero), Vec2(One, One), Vec2(Rat(1, 2), Zero)}
LWMValues   == {[i \in Idx(3) |-> Int2C(v)] : v \in 1 .. 2}
(* Under log priors the entries are exponents of 10.                       *)
LWMValuesOf(slf) ==
    IF slf.log_priors THEN {[i \in Idx(3) |-> Zero]} ELSE LWMValues

(* x has nDims entries (run_EoR.py lines 495-499), preceded by the two     *)
(* spectral parameters when they are fitted.                               *)
Inputs(slf, pp) ==
    LET amps == [Idx(Len0(slf.k_cube_voxels_in_bin)) -> AmplitudeValues(slf)]
        lwm  == IF pp.use_LWM_Gaussian_prior THEN LWMValuesOf(slf) ELSE {<<>>}
        nse  == IF slf.intrinsic_noise_fitting THEN {Vec1(a) : a \in AlphaValues}
                ELSE {<<>>}
        pl   == IF slf.fit_for_spectral_model_parameters THEN PlValues ELSE {<<>>}
    IN  {Concat0(b, Concat0(a, Concat0(l, k))) :
            b \in pl, a \in nse, l \in lwm, k \in amps}

BlockArgs(slf) ==
    {None, block_T_Ninv_T(slf.T_Ninv_T,
                          [neta |-> slf.neta, nq |-> slf.nq, nuv |-> slf.nuv])}
---------------------------------------------------------------------------
(* The configurations explored.                                            *)

Configs ==
    \* linear amplitudes, every solver, block-diagonal and dense T_Ninv_T
    {[BaseConfig EXCEPT !.geom = g, !.T = t, !.d = d, !.useGPU = u] :
        g \in {"B", "C"}, t \in {"diag", "herm", "ones"}, d \in {"ones", "cplx"},
        u \in BOOLEAN}
    \cup {[BaseConfig EXCEPT !.T = "full", !.useGPU = u] : u \in BOOLEAN}
    \* log-uniform priors, with and without uniform-prior bins
    \cup {[BaseConfig EXCEPT !.geom = "B", !.log_priors = TRUE, !.useGPU = u,
                             !.n_uniform_prior_k_bins = n] :
            u \in BOOLEAN, n \in {0, 1, -1}}
    \* noise fitting
    \cup {[BaseConfig EXCEPT !.geom = g, !.noise = TRUE, !.useGPU = u] :
            g \in {"B", "C"}, u \in BOOLEAN}
    \* Gaussian prior on the LSSM amplitudes
    \cup {[BaseConfig EXCEPT !.geom = g, !.lwm = TRUE, !.useGPU = u] :
            g \in {"A", "C"}, u \in BOOLEAN}
    \* spectral-model fitting, with a full and a partial grid on disk
    \cup {[BaseConfig EXCEPT !.spectral = TRUE, !.files = f] : f \in {"all", "some"}}
    \* physical (not dimensionless) power spectrum
    \cup {[BaseConfig EXCEPT !.dimensionless_PS = FALSE, !.geom = g] : g \in {"B", "C"}}
    \* no prior on the LSSM amplitudes
    \cup {[BaseConfig EXCEPT !.geom = "A", !.inverse_LW_power = Zero, !.T = t,
                             !.useGPU = u] :
            t \in {"diag", "ones"}, u \in BOOLEAN}
    \* subharmonic grid
    \cup {[BaseConfig EXCEPT !.geom = "D", !.useGPU = u] : u \in BOOLEAN}
    \* return_Sigma
    \cup {[BaseConfig EXCEPT !.geom = g, !.return_Sigma = TRUE] : g \in {"B", "C"}}
    \* uniform-prior bins together with the Gaussian prior on the LSSM amplitudes
    \cup {[BaseConfig EXCEPT !.lwm = TRUE, !.n_uniform_prior_k_bins = n] :
            n \in {1, -1}}

Frame == [self |-> self, pc |-> pc, loc |-> loc, ret |-> ret]
Apply(fr) ==
    /\ self' = fr.self
    /\ pc' = fr.pc
    /\ loc' = fr.loc
    /\ ret' = fr.ret
    /\ other' = None
    /\ UNCHANGED <<p, storage>>

Init ==
    \E c \in Configs :
        /\ p = Params(c)
        /\ self = PowerSpectrumPosteriorProbability(c)
        /\ storage = GridFiles(c.files)
        /\ pc = "IDLE"
        /\ loc = IdleLoc
        /\ ret = NoReturn
        /\ other = None

Call ==
    /\ pc \in {"IDLE", "DONE", "FAILED", "RAISED"}
    /\ self.count < MaxCalls
    /\ \E x_arg \in Inputs(self, p), blk \in BlockArgs(self) :
           Apply(StepCall(Frame, x_arg, blk))

Unpack ==
    /\ pc = "CALLED"
    /\ Apply(StepUnpack(Frame, p, storage))

BuildPower ==
    /\ pc = "PARAMS_UNPACKED"
    /\ Apply(StepBuildPower(Frame, p))

Solve ==
    /\ pc = "POWER_BUILT"
    /\ \E garbage \in GarbageKinds : Apply(StepSolve(Frame, p, garbage))

Score ==
    /\ pc = "SOLVED"
    /\ Apply(StepScore(Frame))

Return ==
    /\ pc = "SCORED"
    /\ Apply(StepReturn(Frame))

Next == Call \/ Unpack \/ BuildPower \/ Solve \/ Score \/ Return

Spec == Init /\ [][Next]_vars
---------------------------------------------------------------------------
(* A second evaluator on the same data, for comparing two evaluations:     *)
(* the other solve path ("path"), noise fitting switched off ("noise"),    *)
(* and calc_PowerI on rescaled k-bin amplitudes ("scale").                 *)

ScaleFactor == 2

FreshInstance(slf) ==
    [slf EXCEPT !.count = 0, !.alpha_prime = One, !.print_rate = 1000,
                !.PrintFlag = FALSE, !.GPU_error_flag = None,
                !.power_spectrum_normalisation_func = "unset"]

OtherPath(slf, blk) ==
    IF blk = None
    THEN block_T_Ninv_T(slf.T_Ninv_T, [neta |-> slf.neta, nq |-> slf.nq, nuv |-> slf.nuv])
    ELSE None

ScaleBins(pp, x) ==
    [i \in DOMAIN x |-> IF i >= Fourier_mode_start_index(pp)
                        THEN CMul(Int2C(ScaleFactor), x[i]) ELSE x[i]]

CompanionResult(variant, garbage) ==
    CASE variant = "path" ->
           posterior_probability(FreshInstance(self), p, storage, loc.x_arg,
                                 OtherPath(self, loc.block_T_Ninv_T), garbage)
      [] variant = "noise" ->
           posterior_probability(
               [FreshInstance(self) EXCEPT !.intrinsic_noise_fitting = FALSE],
               p, storage, DropFirst(loc.x_arg, 1), loc.block_T_Ninv_T,
               IF loc.garbage = "none" THEN garbage ELSE loc.garbage)
      [] variant = "scale" ->
           StepBuildPower([self |-> FreshInstance(self), pc |-> "PARAMS_UNPACKED",
                           loc |-> [IdleLoc EXCEPT !.x = ScaleBins(p, loc.x)],
                           ret |-> NoReturn], p)

Companion ==
    /\ pc \in {"DONE", "FAILED"}
    /\ other = None
    /\ \E variant \in {"path", "scale"} \cup
                      (IF self.intrinsic_noise_fitting
                          /\ ~self.fit_for_spectral_model_parameters
                       THEN {"noise"} ELSE {}),
          garbage \in GarbageKinds :
           other' = [variant |-> variant, fr |-> CompanionResult(variant, garbage)]
    /\ UNCHANGED <<p, self, storage, pc, loc, ret>>

NextPair == Next \/ Companion

SpecPair == Init /\ [][NextPair]_vars
---------------------------------------------------------------------------
(* The same arguments once more on the same instance, after the call has   *)
(* returned, with the counter, the print rate and alpha_prime as some      *)
(* sequence of calls in between may have left them: the constructor's      *)
(* values when there was none, otherwise any print rate the code sets      *)
(* (lines 236, 825) and, with noise fitting, any alpha_prime (line 744).   *)
(* The factor left by a failed factorisation is a function of the matrix   *)
(* factorised, so the replay sees what the call saw.                       *)
HistoryCounts == {0, 7}
HistoryPrintRates == {1000, 100}
Histories(slf) ==
    {h \in [count : HistoryCounts, print_rate : HistoryPrintRates,
            alpha_prime : IF slf.intrinsic_noise_fitting THEN AlphaValues
                          ELSE {One}] :
        h.count = 0 => (h.print_rate = 1000 /\ h.alpha_prime = One)}
Replay(h, garbage) ==
    posterior_probability([self EXCEPT !.count = h.count,
                                       !.print_rate = h.print_rate,
                                       !.alpha_prime = h.alpha_prime],
                          p, storage, loc.x_arg, loc.block_T_Ninv_T,
                          IF loc.garbage = "none" THEN garbage ELSE loc.garbage)

Recall ==
    /\ pc \in {"DONE", "FAILED"}
    /\ other = None
    /\ \E h \in Histories(self), garbage \in GarbageKinds :
           other' = [variant |-> "history", fr |-> Replay(h, garbage)]
    /\ UNCHANGED <<p, self, storage, pc, loc, ret>>

NextReplay == Next \/ Recall

SpecReplay == Init /\ [][NextReplay]_vars
---------------------------------------------------------------------------
(* The k-bins (src/SimData/SimData.py).  |k| values and bin edges are in   *)
(* units of 2*pi/Mpc, so deltakpara = 1/ps_box_size_para_Mpc; a state of   *)
(* this part holds the parameters in p, the mask and |k| arrays in loc and *)
(* the returned lists in ret.                                              *)

(* a > b and a <= b on float64 values: false when either is nan.           *)
np_greater(a, b) ==
    ~IsNaN(a) /\ ~IsNaN(b) /\ a # b /\ Sign(CSub(a, b)) > 0
np_less_equal(a, b) ==
    ~IsNaN(a) /\ ~IsNaN(b) /\ (a = b \/ Sign(CSub(b, a)) > 0)

(* numKbins (50 at line 296) *)
NumKbins == 4
modkscaleterm == Rat(27, 20)

(* modkbins[m1] = <<lower edge, upper edge>> (lines 293-304)               *)
RECURSIVE modkbins(_, _)
modkbins(m1, ps_box_size_para_Mpc) ==
    IF m1 = 0
    THEN <<Zero, CMul(Int2C(2), CDiv(One, ps_box_size_para_Mpc))>>
    ELSE LET lo == modkbins(m1 - 1, ps_box_size_para_Mpc)[2]
         IN  <<lo, CMul(modkscaleterm, lo)>>

(* np.where(mod_k_vo > lo, mod_k_vo <= hi, k_mask_vo) (lines 314-320,      *)
(* 329-335)                                                                *)
relevant_voxels(k_mask_vo, mod_k_vo, edges) ==
    {i \in DOMAIN mod_k_vo : /\ np_greater(mod_k_vo[i], edges[1])
                             /\ np_less_equal(mod_k_vo[i], edges[2])
                             /\ k_mask_vo[i]}

(* generate_k_cube_model_spherical_binning (lines 265-339): the bins that  *)
(* hold a voxel, in order of |k|, each with the voxels it holds.           *)
generate_k_cube_model_spherical_binning(k_mask_vo, mod_k_vo, ps_box_size_para_Mpc) ==
    LET vox(i_bin) == relevant_voxels(k_mask_vo, mod_k_vo,
                                      modkbins(i_bin, ps_box_size_para_Mpc))
        held  == {i_bin \in Idx(NumKbins) : Cardinality(vox(i_bin)) > 0}
        nth(j) == CHOOSE b \in held : Cardinality({c \in held : c < b}) = j
    IN  [k_cube_voxels_in_bin |-> [j \in Idx(Cardinality(held)) |-> vox(nth(j))],
         modkbins_containing_voxels |->
             [j \in Idx(Cardinality(held)) |->
                 <<modkbins(nth(j), ps_box_size_para_Mpc),
                   Cardinality(vox(nth(j)))>>]]

(* mask_k_cubes, lines 243-262: per (u, v) pixel, nq LSSM entries with     *)
(* mask False and |k| = inf follow the neta Fourier entries.               *)
mask_k_cubes(k_mask_vo, mod_k_vo, neta, nq) ==
    LET w == neta + nq
        n == (Len0(k_mask_vo) \div neta) * w
    IN  [k_mask_vo |-> [i \in Idx(n) |-> IF i % w < neta
                                         THEN k_mask_vo[(i \div w) * neta + (i % w)]
                                         ELSE FALSE],
         mod_k_vo |-> [i \in Idx(n) |-> IF i % w < neta
                                        THEN mod_k_vo[(i \div w) * neta + (i % w)]
                                        ELSE Inf]]

(* The Fourier part of the arrays: one (u, v) pixel of neta = 2 modes; the *)
(* mask of lines 225-230 is True only where |k_z| > 0, so |k| > 0.         *)
ModKValues == {One, Int2C(2), Rat(5, 2), Int2C(3), Int2C(4), Int2C(6)}
KCubes ==
    [neta : {2}, nq : {0, 1, 2}, ps_box_size_para_Mpc : {One, Int2C(2)},
     k_mask_vo : [Idx(2) -> BOOLEAN], mod_k_vo : [Idx(2) -> ModKValues]]

InitBins ==
    \E c \in KCubes :
        /\ p = [neta |-> c.neta, nq |-> c.nq,
                ps_box_size_para_Mpc |-> c.ps_box_size_para_Mpc]
        /\ loc = [k_mask_vo |-> c.k_mask_vo, mod_k_vo |-> c.mod_k_vo]
        /\ pc = "K_CUBE"
        /\ ret = NoReturn
        /\ self = None
        /\ storage = None
        /\ other = None

MaskKCubes ==
    /\ pc = "K_CUBE"
    /\ pc' = "K_MASKED"
    /\ loc' = mask_k_cubes(loc.k_mask_vo, loc.mod_k_vo, p.neta, p.nq)
    /\ UNCHANGED <<p, self, storage, ret, other>>

SphericalBinning ==
    /\ pc = "K_MASKED"
    /\ pc' = "K_BINNED"
    /\ ret' = generate_k_cube_model_spherical_binning(
                  loc.k_mask_vo, loc.mod_k_vo, p.ps_box_size_para_Mpc)
    /\ UNCHANGED <<p, self, storage, loc, other>>

NextBins == MaskKCubes \/ SphericalBinning

SpecBins == InitBins /\ [][NextBins]_vars
---------------------------------------------------------------------------
(* Calls of posterior_probability from two threads on one instance.  The   *)
(* instance (self) is shared; pc, loc and ret hold one entry per thread.   *)
(* A step is one statement's read or write of an instance attribute:       *)
(* self.count += 1 loads the attribute, adds, and stores.  other keeps the *)
(* history: whether a call began while another was running, how many       *)
(* calls began and how many stores of self.count were made.                *)

Threads == {1, 2}

(* A thread's names that the one-call model folds into a step: the value   *)
(* loaded by self.count += 1 and the self.alpha_prime the solve read.      *)
ThreadLocals == [load_count |-> None, Sigma_alpha_prime |-> None]

(* A variant that leaves self.alpha_prime alone.                           *)
StepAlpha_skip(fr) ==
    [fr EXCEPT !.pc = "L745", !.loc.x = DropFirst(fr.loc.x_arg, 1)]
(* self.alpha_prime = x[0]; x = x[1:] (lines 744-745)                      *)
StepAlpha(fr) ==
    [fr EXCEPT !.pc = "L745", !.self.alpha_prime = fr.loc.x_arg[0],
               !.loc.x = DropFirst(fr.loc.x_arg, 1)]

(* Lines 749-751, each reading self.alpha_prime as it is then; line 751    *)
(* is followed by the log-prior conversion and line 758.                   *)
StepRescale(fr) ==
    LET ap2 == CPow(fr.self.alpha_prime, 2)
    IN  CASE fr.pc = "L745" ->
               [fr EXCEPT !.pc = "L749",
                          !.loc.log_det_N = LLScale(Int2C(fr.self.Ndat), np_log(ap2))]
          [] fr.pc = "L749" ->
               [fr EXCEPT !.pc = "L750",
                          !.loc.d_Ninv_d = CDiv(fr.self.d_Ninv_d, ap2)]
          [] fr.pc = "L750" ->
               [fr EXCEPT !.pc = "L758",
                          !.loc.dbar = VecDivS(fr.loc.dbar, ap2),
                          !.loc.x = IF fr.self.log_priors
                                    THEN [i \in DOMAIN fr.loc.x |-> Pow10(fr.loc.x[i])]
                                    ELSE fr.loc.x,
                          !.loc.do_block_diagonal_inversion =
                              do_block_diagonal_inversion(fr.loc.block_T_Ninv_T)]

(* self.count += 1 (line 759): the load, then the store.                   *)
StepCount(fr) ==
    IF fr.pc = "L758"
    THEN [fr EXCEPT !.pc = "L759", !.loc.load_count = fr.self.count]
    ELSE [fr EXCEPT !.pc = "PARAMS_UNPACKED", !.self.count = fr.loc.load_count + 1]

(* The next step of a running call.                                        *)
ThreadStep(fr, pp, garbage) ==
    CASE fr.pc = "CALLED"                  -> StepAlpha(fr)
      [] fr.pc \in {"L745", "L749", "L750"} -> StepRescale(fr)
      [] fr.pc \in {"L758", "L759"}         -> StepCount(fr)
      [] fr.pc = "PARAMS_UNPACKED"         -> StepBuildPower(fr, pp)
      [] fr.pc = "POWER_BUILT" ->
             StepSolve([fr EXCEPT !.loc.Sigma_alpha_prime = fr.self.alpha_prime],
                       pp, garbage)
      [] fr.pc = "SOLVED"                  -> StepScore(fr)
      [] fr.pc = "SCORED"                  -> StepReturn(fr)

ThreadFrame(t) == [self |-> self, pc |-> pc[t], loc |-> loc[t], ret |-> ret[t]]
ThreadApply(t, fr) ==
    /\ self' = fr.self
    /\ pc' = [pc EXCEPT ![t] = fr.pc]
    /\ loc' = [loc EXCEPT ![t] = fr.loc]
    /\ ret' = [ret EXCEPT ![t] = fr.ret]
    /\ UNCHANGED <<p, storage>>

(* The idle states of a thread, and the arguments the threads pass: any    *)
(* alpha_prime, the k-bin amplitudes at 1.                                 *)
Quiet == {"IDLE", "DONE", "FAILED"}
ThreadInputs ==
    {x \in Inputs(self, p) : \A i \in DOMAIN x : i >= 1 => x[i] = One}

InitThreads ==
    \E u \in BOOLEAN :
        LET c == [BaseConfig EXCEPT !.geom = "B", !.noise = TRUE, !.useGPU = u]
        IN  /\ p = Params(c)
            /\ self = PowerSpectrumPosteriorProbability(c)
            /\ storage = GridFiles(c.files)
            /\ pc = [t \in Threads |-> "IDLE"]
            /\ loc = [t \in Threads |-> IdleLoc @@ ThreadLocals]
            /\ ret = [t \in Threads |-> NoReturn]
            /\ other = [overlapped |-> FALSE, started |-> 0, stores |-> 0]

ThreadCall(t) ==
    /\ pc[t] \in Quiet
    /\ other.started < MaxCalls
    /\ \E x_arg \in ThreadInputs, blk \in BlockArgs(self) :
           LET fr == StepCall(ThreadFrame(t), x_arg, blk)
           IN  ThreadApply(t, [fr EXCEPT !.loc = fr.loc @@ ThreadLocals])
    /\ other' = [other EXCEPT !.started = @ + 1,
                              !.overlapped = @ \/ \E u \in Threads \ {t} :
                                                      pc[u] \notin Quiet]

ThreadRun(t) ==
    /\ pc[t] \notin Quiet
    /\ \E garbage \in GarbageKinds :
           ThreadApply(t, ThreadStep(ThreadFrame(t), p, garbage))
    /\ other' = [other EXCEPT !.stores = IF pc[t] = "L759" THEN @ + 1 ELSE @]

NextThreads == \E t \in Threads : ThreadCall(t) \/ ThreadRun(t)

SpecThreads == InitThreads /\ [][NextThreads]_vars
---------------------------------------------------------------------------
(* The import of Likelihood.py (lines 17-54) ahead of the calls.  p also   *)
(* holds the module's name wrapmzpotrf: "unbound" until the try block      *)
(* binds it, then "CDLL", or the exception that ended the try block:       *)
(* ImportError for a missing pycuda or driver, NameError for a device      *)
(* that is neither p100 nor v100 (gpu_arch is read unbound at line 33),    *)
(* OSError for a missing shared library.                                   *)
LoadOutcomes == {"CDLL", "ImportError", "NameError", "OSError"}

(* A variant whose handler passes over an unrecognised device.              *)
LoadGPU_unless_NameError(pp, outcome) ==
    [pp EXCEPT !.wrapmzpotrf = outcome,
               !.useGPU = IF outcome \in {"ImportError", "OSError"} THEN FALSE ELSE @]
(* try: ... except Exception as e: ... p.useGPU = False (lines 17-54)      *)
LoadGPU(pp, outcome) ==
    [pp EXCEPT !.wrapmzpotrf = outcome,
               !.useGPU = IF outcome # "CDLL" THEN FALSE ELSE @]

LoadConfigs ==
    {[BaseConfig EXCEPT !.geom = g, !.T = t, !.useGPU = u] :
        g \in {"B", "C"}, t \in {"herm", "ones"}, u \in BOOLEAN}

InitLoad ==
    \E c \in LoadConfigs :
        /\ p = Params(c) @@ [wrapmzpotrf |-> "unbound"]
        /\ self = None
        /\ storage = GridFiles(c.files)
        /\ pc = "IMPORT"
        /\ loc = [T |-> c.T, d |-> c.d, geom |-> c.geom]
        /\ ret = NoReturn
        /\ other = None

(* import, then the constructor call of run_EoR.py (lines 581-593)         *)
ImportLikelihood ==
    /\ pc = "IMPORT"
    /\ \E outcome \in LoadOutcomes : p' = LoadGPU(p, outcome)
    /\ self' = PowerSpectrumPosteriorProbability(
                   [BaseConfig EXCEPT !.geom = loc.geom, !.T = loc.T, !.d = loc.d])
    /\ pc' = "IDLE"
    /\ loc' = IdleLoc
    /\ UNCHANGED <<storage, ret, other>>

NextLoad == ImportLikelihood \/ (pc # "IMPORT" /\ Next)

SpecLoad == InitLoad /\ [][NextLoad]_vars
---------------------------------------------------------------------------
(* The calls run_EoR.py makes (lines 610, 623-632, 664): x alone, so the   *)
(* block_T_Ninv_T parameter of posterior_probability keeps its default.    *)

(* A variant in which the caller hands over the diagonal blocks.           *)
DefaultBlockArg_blocks(slf) ==
    block_T_Ninv_T(slf.T_Ninv_T, [neta |-> slf.neta, nq |-> slf.nq, nuv |-> slf.nuv])
(* def posterior_probability(self, x, block_T_Ninv_T=[]) (line 656)        *)
DefaultBlockArg(slf) == None

likelihood ==
    /\ pc \in {"IDLE", "DONE", "FAILED", "RAISED"}
    /\ self.count < MaxCalls
    /\ \E theta \in Inputs(self, p) :
           Apply(StepCall(Frame, theta, DefaultBlockArg(self)))

NextDriver == likelihood \/ Unpack \/ BuildPower \/ Solve \/ Score \/ Return

SpecDriver == Init /\ [][NextDriver]_vars
---------------------------------------------------------------------------
(* Properties of posterior_probability and calc_PowerI.                    *)

NegInfSentinel ==
    /\ ret.kind = "return"
    /\ ret.first.type = "float" /\ ret.first.val = LLCanon(LLNum(NegInf))
    /\ ret.second.type = "int" /\ ret.second.val = -1
InTry     == pc \in {"PARAMS_UNPACKED", "POWER_BUILT", "SOLVED", "SCORED"}
PastBuild == pc \in {"POWER_BUILT", "SOLVED", "SCORED", "DONE", "FAILED"}
Finished  == pc \in {"DONE", "FAILED"}
Start     == Fourier_mode_start_index(p)
Bins      == Idx(Len0(self.k_cube_voxels_in_bin))
FactorFailed == self.GPU_error_flag # None /\ self.GPU_error_flag # <<0>>

(* C1: a step taken inside the try block (building the power vector,      *)
(* solving, scoring, returning) never ends the call with a raised          *)
(* exception; if the step met an exception, the call has returned          *)
(* (-inf, -1).                                                             *)
C1_Theorem ==
    [][InTry =>
          /\ pc' # "RAISED"
          /\ ret'.kind # "raise"
          /\ (loc'.exception # "none" => pc' = "FAILED" /\ NegInfSentinel')]_vars
C1_Witness == pc = "FAILED" /\ loc.exception = "LinAlgError" /\ NegInfSentinel

(* C2 (as claimed): whenever a finished call had a k-bin amplitude equal   *)
(* to 0 under linear priors, calc_PowerI produced a PhiI that is not       *)
(* finite at that bin's voxels and the call returned (-inf, -1).           *)
C2_Claim ==
    (Finished /\ ~self.log_priors /\ \E i \in Bins : loc.x[Start + i] = Zero)
    => /\ loc.PhiI # None
       /\ \A i \in Bins :
             loc.x[Start + i] = Zero =>
                \A v \in self.k_cube_voxels_in_bin[i] : ~IsFinite(loc.PhiI[v])
       /\ NegInfSentinel

(* C3 (as claimed): when the factorisation of the accelerated path         *)
(* reported a nonzero error code, log|Sigma| is +inf and the score the     *)
(* call returns is not nan.                                                *)
C3_Claim ==
    (pc = "DONE" /\ FactorFailed)
    => /\ loc.logSigmaDet = LLNum(Inf)
       /\ ~IsNaN(ret.first.val[3])

(* C4: with spectral-model fitting, a call whose grid point has no         *)
(* T_Ninv_T file or no dbar file raises: the unpacking step ends the call  *)
(* with the exception, not with a returned sample.                         *)
C4_Theorem ==
    [][(/\ pc = "CALLED"
        /\ self.fit_for_spectral_model_parameters
        /\ \E g \in {GridPoint(p, TakeFirst(loc.x_arg, 2))} :
              T_Ninv_T_file_path(g) \notin storage \/ dbar_file_path(g) \notin storage)
       => (pc' = "RAISED" /\ ret'.kind = "raise" /\ ret'.exc = "OSError")]_vars
C4_Witness ==
    /\ pc = "RAISED" /\ ret.kind = "raise"
    /\ T_Ninv_T_file_path(GridPoint(p, TakeFirst(loc.x_arg, 2))) \in storage
    /\ dbar_file_path(GridPoint(p, TakeFirst(loc.x_arg, 2))) \notin storage

(* C5 (as claimed): every return is (float, list of floats).               *)
C5_Claim ==
    ret.kind = "return" => ret.first.type = "float" /\ ret.second.type = "list"
(* C5 (amended): every return has a float first; the second component is   *)
(* the list [0.0] on the success path and the integer -1 on the failure    *)
(* path.                                                                   *)
C5_Theorem ==
    ret.kind = "return"
    => /\ ret.first.type = "float"
       /\ pc \in {"DONE", "FAILED"}
       /\ (pc = "DONE" => /\ ret.second.type = "list"
                          /\ ret.second.val = [i \in Idx(1) |-> Zero])
       /\ (pc = "FAILED" => ret.second.type = "int" /\ ret.second.val = -1)
C5_Witness == pc = "FAILED" /\ ret.kind = "return" /\ ret.second.type = "int"
(* The matrix the call solved with: T_Ninv_T (over alpha'^2 with noise     *)
(* fitting) plus diag(PhiI); the block path keeps only its nuv diagonal    *)
(* blocks.                                                                 *)
SolvedSigma ==
    LET S == BuildSigma(self, loc.T_Ninv_T, loc.PhiI)
        b == self.neta + self.nq
    IN  IF loc.do_block_diagonal_inversion
        THEN [i \in DOMAIN S |-> [j \in DOMAIN S[i] |->
                 IF i \div b = j \div b THEN S[i][j] ELSE Zero]]
        ELSE S
LogAbsDet(S) == np_log(RAbs(CReal(Det(S))))
FactorisationFailed(S) == p.useGPU /\ Potrf(S, Len0(S), 0, One).info # 0
Jacobian ==
    IF self.n_uniform_prior_k_bins > 0
    THEN SumLog(TakeFirst(loc.x, self.n_uniform_prior_k_bins))
    ELSE IF self.n_uniform_prior_k_bins = -1 THEN SumLog(loc.x)
    ELSE LLZero
NoiseSubtrahend ==
    IF self.intrinsic_noise_fitting
    THEN LLAdd(LLScale(Rat(1, 2), LLNum(CDiv(self.d_Ninv_d, CPow(self.alpha_prime, 2)))),
               LLScale(Rat(self.Ndat, 2), np_log(CPow(self.alpha_prime, 2))))
    ELSE LLZero
ScoreFrom(L, jac) ==
    LLCanon(LLSub(LLReal(LLAdd(LLAdd(LLAdd(LLScale(Rat(-1, 2), L),
                                           LLScale(Rat(1, 2), SumLog(loc.PhiI))),
                                     LLScale(Rat(1, 2),
                                             LLNum(VdotConj(loc.dbar, loc.SigmaI_dbar)))),
                               jac)),
                  NoiseSubtrahend))

(* C6 (as claimed): a score returned on the success path is                *)
(* Re(-0.5*log|Sigma| - 0.5*logPhiDet + 0.5*dbar^H y), less the noise      *)
(* terms with noise fitting, where Sigma y = dbar.                         *)
C6_Claim ==
    pc = "DONE"
    => /\ MatVec(SolvedSigma, loc.SigmaI_dbar) = loc.dbar
       /\ ret.first.val = ScoreFrom(LogAbsDet(SolvedSigma), LLZero)
(* C6 (amended): the score also carries the Jacobian term of the           *)
(* uniform-prior bins, and after a failed factorisation on the accelerated *)
(* path log|Sigma| is replaced by +inf and y is what the solve left;       *)
(* otherwise log|Sigma| is the log-determinant and Sigma y = dbar.         *)
C6_Theorem ==
    pc = "DONE"
    => IF FactorisationFailed(SolvedSigma)
       THEN ret.first.val = ScoreFrom(LLNum(Inf), Jacobian)
       ELSE /\ MatVec(SolvedSigma, loc.SigmaI_dbar) = loc.dbar
            /\ ret.first.val = ScoreFrom(LogAbsDet(SolvedSigma), Jacobian)
C6_Witness ==
    /\ pc = "DONE" /\ self.intrinsic_noise_fitting /\ self.alpha_prime # One
    /\ ~FactorisationFailed(SolvedSigma)
    /\ LLIsFinite(ret.first.val)

(* C7 (as claimed): once calc_PowerI has been called, PhiI is a vector of  *)
(* Npar entries with PhiI[v] = normalisation(i) / x[start + i] at every    *)
(* voxel v of every k-bin i.                                               *)
C7_Claim ==
    PastBuild
    => /\ loc.PhiI # None
       /\ DOMAIN loc.PhiI = Idx(self.Npar)
       /\ \A i \in Bins : \A v \in self.k_cube_voxels_in_bin[i] :
             loc.PhiI[v] =
                 CDiv(calc_physical_dimensionless_power_spectral_normalisation(self, i),
                      loc.x[Start + i])
---------------------------------------------------------------------------
(* Properties relating two evaluations (specification SpecPair).           *)

Compared(variant) == other # None /\ other.variant = variant
BlockDiagonalData ==
    /\ self.Npar = self.nuv * (self.neta + self.nq)
    /\ \A i, j \in Idx(self.Npar) :
          i \div (self.neta + self.nq) # j \div (self.neta + self.nq)
          => self.T_Ninv_T[i][j] = Zero
SameSolve ==
    /\ loc.SigmaI_dbar = other.fr.loc.SigmaI_dbar
    /\ loc.logSigmaDet = other.fr.loc.logSigmaDet
BinVoxels == UNION {self.k_cube_voxels_in_bin[i] : i \in Bins}

(* C8 (as claimed): for a block-diagonal T_Ninv_T, a call on the block     *)
(* path and a call on the whole-matrix path with the same x and dbar end   *)
(* with the same SigmaI_dbar, the same log|Sigma| and the same score.      *)
C8_Claim ==
    (Compared("path") /\ BlockDiagonalData)
    => /\ SameSolve
       /\ ret.first.val = other.fr.ret.first.val

(* C9 (as claimed): a noise-fitting evaluator called with alpha' = 1       *)
(* returns the score of the evaluator without noise fitting.               *)
C9_Claim ==
    (Compared("noise") /\ self.alpha_prime = One)
    => ret.first.val = other.fr.ret.first.val
(* C9 (amended): with alpha' = 1 the two evaluators solve the same system  *)
(* and end the same way, and the noise-fitting score is the other score    *)
(* minus 0.5*d_Ninv_d.                                                     *)
C9_Theorem ==
    (Compared("noise") /\ self.alpha_prime = One)
    => /\ pc = other.fr.pc
       /\ SameSolve
       /\ ret.first.val =
              LLCanon(LLAdd(other.fr.ret.first.val,
                            LLNum(CMul(Rat(-1, 2), self.d_Ninv_d))))
C9_Witness ==
    /\ Compared("noise") /\ self.alpha_prime = One
    /\ pc = "DONE" /\ LLIsFinite(ret.first.val)

(* C10 (as claimed): with every k-bin amplitude multiplied by c, every     *)
(* entry of PhiI is multiplied by 1/c.                                     *)
C10_Claim ==
    (Compared("scale") /\ loc.PhiI # None)
    => /\ other.fr.loc.PhiI # None
       /\ \A v \in Idx(self.Npar) :
             other.fr.loc.PhiI[v] = CMul(Rat(1, ScaleFactor), loc.PhiI[v])
(* C10 (amended): the entries at the voxels of the k-bins are multiplied   *)
(* by 1/c; every other entry (LSSM and subharmonic-grid seeds) keeps its   *)
(* value.                                                                  *)
C10_Theorem ==
    (Compared("scale") /\ loc.PhiI # None)
    => /\ other.fr.loc.PhiI # None
       /\ \A v \in Idx(self.Npar) :
             other.fr.loc.PhiI[v] =
                 IF v \in BinVoxels THEN CMul(Rat(1, ScaleFactor), loc.PhiI[v])
                 ELSE loc.PhiI[v]
C10_Witness ==
    /\ Compared("scale") /\ loc.PhiI # None
    /\ \E v \in BinVoxels : IsFinite(loc.PhiI[v])
    /\ \E v \in Idx(self.Npar) \ BinVoxels : loc.PhiI[v] # Zero
---------------------------------------------------------------------------
(* The sum of the logs of the amplitudes of the uniform-prior k-bins: the  *)
(* n lowest bins, or every bin when n_uniform_prior_k_bins = -1.           *)
UniformPriorBins ==
    IF self.n_uniform_prior_k_bins = -1 THEN Bins
    ELSE {i \in Bins : i < self.n_uniform_prior_k_bins}
BinJacobian ==
    LET k == Cardinality(UniformPriorBins)
    IN  SumLog([i \in Idx(k) |-> loc.x[Start + i]])

(* C11 (as claimed): a returned score carries the Jacobian term summed     *)
(* over the amplitudes of the uniform-prior k-bins and nothing else, also  *)
(* when three LSSM parameters precede the k-bin amplitudes in x.           *)
C11_Claim ==
    pc = "DONE"
    => ret.first.val =
           ScoreFrom(IF FactorisationFailed(SolvedSigma) THEN LLNum(Inf)
                     ELSE LogAbsDet(SolvedSigma),
                     BinJacobian)
(* C12 (as claimed): with dimensionless_PS = False too, calc_PowerI binds  *)
(* a normalisation function and returns a PhiI vector.                     *)
C12_Claim ==
    (PastBuild /\ ~self.dimensionless_PS)
    => /\ self.power_spectrum_normalisation_func # "unset"
       /\ loc.exception # "AttributeError"
       /\ loc.PhiI # None
(* C13 (as claimed): a call that completed its solve took the block path   *)
(* exactly when a block-diagonal form of T_Ninv_T was supplied, at         *)
(* construction or with the call.                                          *)
C13_Claim ==
    pc \in {"SOLVED", "SCORED", "DONE"}
    => (loc.do_block_diagonal_inversion
        <=> (self.block_T_Ninv_T # None \/ loc.block_T_Ninv_T # None))
(* C14 (as claimed): with return_Sigma set, no call ever holds a result of *)
(* the solver or a log-determinant, whichever path it takes.               *)
C14_Claim ==
    self.return_Sigma
    => /\ loc.SigmaI_dbar = None
       /\ loc.logSigmaDet = None
       /\ pc \notin {"SOLVED", "SCORED", "DONE"}

(* C15: no step of any call changes the instance's T_Ninv_T, dbar or
   d_Ninv_d: after any sequence of calls they hold the values the
   constructor stored. *)
C15_Theorem ==
    [][/\ self'.T_Ninv_T = self.T_Ninv_T
       /\ self'.dbar = self.dbar
       /\ self'.d_Ninv_d = self.d_Ninv_d]_vars
(* A second call has finished on the accelerated whole-matrix path without
   noise or spectral fitting, where Sigma is factorised in place. *)
C15_Witness ==
    /\ pc \in {"DONE", "FAILED"}
    /\ self.count = 2
    /\ p.useGPU
    /\ ~loc.do_block_diagonal_inversion
    /\ ~self.intrinsic_noise_fitting
    /\ ~self.fit_for_spectral_model_parameters
    /\ loc.PhiI # None
    /\ self.GPU_error_flag # None

Running == {"PARAMS_UNPACKED", "POWER_BUILT", "SOLVED", "SCORED"}
(* C16 (as claimed): once a call has ended, whatever its outcome (scored,
   rejected with -inf, or aborted by a spectral-grid lookup error), the
   counter has counted it. *)
C16_Claim ==
    pc \in {"DONE", "FAILED", "RAISED"} => self.count >= 1
(* C16: every call that returns (scored or rejected with -inf) increments
   the counter exactly once, at the end of the unpacking; a call aborted by
   a spectral-grid lookup error ends before the increment and leaves the
   counter where it was.  So the counter equals the number of calls that
   returned. *)
C16_Theorem ==
    [][/\ pc' = "CALLED" <=> pc \in {"IDLE", "DONE", "FAILED", "RAISED"}
       /\ pc = "CALLED" => pc' \in {"PARAMS_UNPACKED", "RAISED"}
       /\ pc' \in {"DONE", "FAILED"} => pc \in Running
       /\ pc' = "RAISED" => /\ pc = "CALLED"
                            /\ self.fit_for_spectral_model_parameters
                            /\ loc'.exception = "OSError"
       /\ self'.count = IF pc = "CALLED" /\ pc' = "PARAMS_UNPACKED"
                        THEN self.count + 1 ELSE self.count]_vars
(* A call aborted by the lookup error after a call that returned. *)
C16_Witness == pc = "RAISED" /\ self.count = 1 /\ loc.exception = "OSError"

(* C17: a call made again with the same arguments on the same instance,
   after the first has returned, returns the same score and the same
   derived value, whatever counter, print rate and alpha_prime the calls in
   between have left. *)
C17_Theorem ==
    Compared("history")
    => /\ other.fr.pc = pc
       /\ other.fr.ret = ret
(* A scored second call of a noise-fitting evaluator replayed from another
   counter value and print rate. *)
C17_Witness ==
    /\ Compared("history")
    /\ pc = "DONE"
    /\ self.count = 2
    /\ self.intrinsic_noise_fitting
    /\ other.fr.self.count # self.count
    /\ other.fr.self.print_rate # self.print_rate

(* C18: every call passes its stages in the order unpack, build, solve,
   score: the solver runs only in the step that follows the building of
   PhiI, a score is returned only from a scored call that holds a solution,
   and the -inf return is entered only while building (from
   PARAMS_UNPACKED), solving (from POWER_BUILT) or scoring (from SOLVED). *)
C18_Theorem ==
    [][/\ pc' = "PARAMS_UNPACKED" => pc = "CALLED"
       /\ pc' = "POWER_BUILT" => (pc = "PARAMS_UNPACKED" /\ loc'.PhiI # None)
       /\ pc' = "SOLVED" => (pc = "POWER_BUILT" /\ loc.PhiI # None
                             /\ loc'.PhiI = loc.PhiI)
       /\ (loc'.SigmaI_dbar # None \/ self'.GPU_error_flag # self.GPU_error_flag)
          => pc \in {"POWER_BUILT", "SOLVED", "SCORED"}
       /\ pc' = "SCORED" => (pc = "SOLVED" /\ loc'.MargLogL # None)
       /\ pc' = "DONE" => (pc = "SCORED" /\ loc.SigmaI_dbar # None
                           /\ loc.MargLogL # None)
       /\ pc' = "FAILED" => pc \in {"PARAMS_UNPACKED", "POWER_BUILT", "SOLVED"}]_vars
(* A call that failed in the solve stage, with PhiI built and no solution. *)
C18_Witness ==
    /\ pc = "FAILED"
    /\ loc.PhiI # None
    /\ loc.SigmaI_dbar = None
    /\ loc.exception = "LinAlgError"

SublistsHolding(v) ==
    {j \in DOMAIN ret.k_cube_voxels_in_bin : v \in ret.k_cube_voxels_in_bin[j]}
(* C19 (as claimed): the sublists of k_cube_voxels_in_bin are a disjoint
   cover of the voxels whose mask entry is True: each such voxel is in
   exactly one sublist, a voxel whose mask entry is False (the LSSM voxels
   among them) is in none, and no sublist is empty. *)
C19_Claim ==
    pc = "K_BINNED"
    => /\ \A v \in DOMAIN loc.k_mask_vo :
              Cardinality(SublistsHolding(v)) = IF loc.k_mask_vo[v] THEN 1 ELSE 0
       /\ \A j \in DOMAIN ret.k_cube_voxels_in_bin :
              ret.k_cube_voxels_in_bin[j] # {}

OwnAlphaSq(t) == CPow(loc[t].x_arg[0], 2)
OwnRescaling(t) ==
    /\ loc[t].dbar = VecDivS(self.dbar, OwnAlphaSq(t))
    /\ loc[t].d_Ninv_d = CDiv(self.d_Ninv_d, OwnAlphaSq(t))
    /\ loc[t].log_det_N = LLScale(Int2C(self.Ndat), np_log(OwnAlphaSq(t)))
(* C20: as long as no call began while another was running, every solve
   scales Sigma with the alpha_prime of its own call, the one its dbar,
   d_Ninv_d and log_det_N were rescaled with, the call returns what a call
   on an instance of its own returns, and every increment of the counter is
   kept. *)
C20_Theorem ==
    ~other.overlapped
    => /\ self.count = other.stores
       /\ \A t \in Threads :
              /\ pc[t] \in {"SOLVED", "SCORED", "DONE"}
                 => /\ loc[t].Sigma_alpha_prime = loc[t].x_arg[0]
                    /\ OwnRescaling(t)
              /\ pc[t] = "DONE"
                 => ret[t] = posterior_probability(
                                 FreshInstance(self), p, storage, loc[t].x_arg,
                                 loc[t].block_T_Ninv_T, "finite").ret
(* Two calls overlapped: one scored with a Sigma scaled by the other's
   alpha_prime while its dbar, d_Ninv_d and log_det_N carry its own, and one
   of the two increments of the counter is lost. *)
C20_Witness ==
    /\ other.overlapped
    /\ other.stores = 2
    /\ self.count = 1
    /\ \E t \in Threads :
           /\ pc[t] = "DONE"
           /\ loc[t].Sigma_alpha_prime # loc[t].x_arg[0]
           /\ OwnRescaling(t)

LoadFailed(pp) == pp.wrapmzpotrf \in LoadOutcomes \ {"CDLL"}
(* C21: when the accelerator fails to load, whatever the reason, the import
   leaves useGPU False; after the import no step changes p, so the
   strategy is the same in every solve and log-determinant of the run; and
   after a failed load no solve takes the accelerated branch (which alone
   writes GPU_error_flag and alone yields a +inf log-determinant). *)
C21_Theorem ==
    [][/\ pc # "IMPORT" => p' = p
       /\ LoadFailed(p')
          => /\ ~p'.useGPU
             /\ self'.GPU_error_flag = None
             /\ loc'.logSigmaDet # LLNum(Inf)]_vars
(* A call scored on the CPU after the device was not recognised, with
   params.py asking for the accelerator. *)
C21_Witness ==
    /\ pc = "DONE"
    /\ p.wrapmzpotrf = "NameError"
    /\ ~p.useGPU
    /\ self.count = 2
    /\ loc.logSigmaDet # None

(* C22: in a run of the driver with instrumental effects modelled, no call
   takes the block-diagonal solve: every call that gets as far as the solve
   has do_block_diagonal_inversion False. *)
C22_Theorem ==
    (p.include_instrumental_effects /\ pc # "IDLE")
    => /\ ~loc.do_block_diagonal_inversion
       /\ loc.block_T_Ninv_T = None
       /\ self.block_T_Ninv_T = None
(* A call of the driver solved on the whole-matrix path with instrumental
   effects modelled. *)
C22_Witness ==
    /\ p.include_instrumental_effects
    /\ pc = "SOLVED"
    /\ self.count = 2
    /\ ~loc.do_block_diagonal_inversion
---------------------------------------------------------------------------
(* The unpacking of x under every combination of the four switches that    *)
(* decide its layout.                                                      *)

UnpackConfigs ==
    {[BaseConfig EXCEPT !.spectral = s, !.noise = n, !.log_priors = l, !.lwm = w] :
        s \in BOOLEAN, n \in BOOLEAN, l \in BOOLEAN, w \in BOOLEAN}

InitUnpack ==
    \E c \in UnpackConfigs :
        /\ p = Params(c)
        /\ self = PowerSpectrumPosteriorProbability(c)
        /\ storage = GridFiles(c.files)
        /\ pc = "IDLE"
        /\ loc = IdleLoc
        /\ ret = NoReturn
        /\ other = None

SpecUnpack == InitUnpack /\ [][Next]_vars

(* The number of entries posterior_probability and calc_PowerI read from   *)
(* x: x[:2] (line 689), x[0] (line 744), x[0..2] (lines 331-343) and one   *)
(* entry per k-bin (lines 345-369).                                        *)
EntriesConsumed(slf, pp) ==
    (IF slf.fit_for_spectral_model_parameters THEN 2 ELSE 0)
    + (IF slf.intrinsic_noise_fitting THEN 1 ELSE 0)
    + Fourier_mode_start_index(pp)
    + Len0(slf.k_cube_voxels_in_bin)

(* What is left of x_arg after the leading entries are stripped.           *)
Remaining(slf, x_arg) ==
    DropFirst(x_arg, (IF slf.fit_for_spectral_model_parameters THEN 2 ELSE 0)
                     + (IF slf.intrinsic_noise_fitting THEN 1 ELSE 0))

(* C23: when x has as many entries as the evaluator consumes, the vector   *)
(* handed to calc_PowerI has (3 if LSSM Gaussian prior else 0) + number of *)
(* k-bins entries; alpha_prime is the raw entry that follows the optional  *)
(* spectral pair, and every other remaining entry is 10**x under log       *)
(* priors and x itself otherwise.                                          *)
C23_Theorem ==
    (pc = "PARAMS_UNPACKED" /\ Len0(loc.x_arg) = EntriesConsumed(self, p)) =>
        /\ Len0(loc.x) = Fourier_mode_start_index(p) + Len0(self.k_cube_voxels_in_bin)
        /\ self.intrinsic_noise_fitting =>
               self.alpha_prime =
                   loc.x_arg[IF self.fit_for_spectral_model_parameters THEN 2 ELSE 0]
        /\ \A i \in DOMAIN loc.x :
               loc.x[i] = IF self.log_priors THEN Pow10(Remaining(self, loc.x_arg)[i])
                          ELSE Remaining(self, loc.x_arg)[i]
C23_Witness ==
    /\ pc = "PARAMS_UNPACKED"
    /\ Len0(loc.x_arg) = EntriesConsumed(self, p)
    /\ self.fit_for_spectral_model_parameters
    /\ self.intrinsic_noise_fitting
    /\ self.log_priors
    /\ p.use_LWM_Gaussian_prior
    /\ self.alpha_prime = Int2C(2)
    /\ loc.x_arg[3] = Zero
    /\ loc.x[0] = One
    /\ loc.x[4] = Int2C(10)

(* The i-th Sigma block and the i-th right-hand side as C24 states them,   *)
(* with b = neta + nq.                                                     *)
SigmaBlockAt(i) ==
    LET b == self.neta + self.nq
    IN  AddDiagonal(SubMatrix(ScaledByNoise(self, loc.T_Ninv_T), b * i, b * (i + 1)),
                    [k \in Idx(b) |-> loc.PhiI[b * i + k]])
dbarBlockAt(i) ==
    [k \in Idx(self.neta + self.nq) |-> loc.dbar[(self.neta + self.nq) * i + k]]
SolutionBlockAt(i) ==
    [k \in Idx(self.neta + self.nq) |-> loc.SigmaI_dbar[(self.neta + self.nq) * i + k]]
BlockPathEnded ==
    /\ pc \in {"SOLVED", "FAILED"}
    /\ loc.do_block_diagonal_inversion
    /\ loc.PhiI # None
(* C24 (as claimed): on the block path, in every configuration, the        *)
(* sub-harmonic grid with Npar > nuv*(neta+nq) included, the i-th Sigma    *)
(* block is T_Ninv_T[i*b:(i+1)*b, i*b:(i+1)*b] + diag(PhiI[i*b:(i+1)*b])   *)
(* and the solver's i-th result solves it against dbar[i*b:(i+1)*b].       *)
C24_Claim ==
    BlockPathEnded =>
        LET Sb == calc_Sigma_block_diagonals(self, ScaledByNoise(self, loc.T_Ninv_T),
                                             loc.PhiI)
        IN  /\ Sb.exc = "none"
            /\ \A i \in Idx(self.nuv) : Sb.val[i] = SigmaBlockAt(i)
            /\ (pc = "SOLVED" /\ ~p.useGPU) =>
                   \A i \in Idx(self.nuv) :
                       MatVec(SigmaBlockAt(i), SolutionBlockAt(i)) = dbarBlockAt(i)

(* Sigma as C25 states it, entry by entry: T_Ninv_T divided by             *)
(* alpha_prime**2 under noise fitting, PhiI added to the diagonal as it    *)
(* is.                                                                     *)
SigmaEntry(i, j) ==
    CAdd(IF self.intrinsic_noise_fitting
         THEN CDiv(loc.T_Ninv_T[i][j], CMul(self.alpha_prime, self.alpha_prime))
         ELSE loc.T_Ninv_T[i][j],
         IF i = j THEN loc.PhiI[i] ELSE Zero)
(* The Sigma the solve stage builds from the locals of this call: the      *)
(* blocks of line 474-480 on the block path, the matrix of lines 540-544   *)
(* otherwise.                                                              *)
SigmaBuilt ==
    IF loc.do_block_diagonal_inversion
    THEN calc_Sigma_block_diagonals(self, ScaledByNoise(self, loc.T_Ninv_T),
                                    loc.PhiI).val
    ELSE BuildSigma(self, loc.T_Ninv_T, loc.PhiI)
SigmaAsStated(S) ==
    IF loc.do_block_diagonal_inversion
    THEN \A b \in Idx(self.nuv) :
             \A i \in Idx(self.neta + self.nq), j \in Idx(self.neta + self.nq) :
                 S[b][i][j] = SigmaEntry((self.neta + self.nq) * b + i,
                                         (self.neta + self.nq) * b + j)
    ELSE \A i \in Idx(self.Npar), j \in Idx(self.Npar) : S[i][j] = SigmaEntry(i, j)
(* C25: on both solve paths Sigma = T_Ninv_T/alpha_prime**2 + diag(PhiI)   *)
(* under noise fitting and T_Ninv_T + diag(PhiI) without it: PhiI is never *)
(* rescaled and the off-diagonal entries are those of the rescaled         *)
(* T_Ninv_T; the solution found solves that Sigma against dbar.            *)
C25_Theorem ==
    pc = "SOLVED" =>
        /\ SigmaAsStated(SigmaBuilt)
        /\ (~p.useGPU /\ ~loc.do_block_diagonal_inversion) =>
               MatVec([i \in Idx(self.Npar) |-> [j \in Idx(self.Npar) |->
                           SigmaEntry(i, j)]], loc.SigmaI_dbar) = loc.dbar
C25_Witness ==
    /\ pc = "SOLVED"
    /\ self.intrinsic_noise_fitting
    /\ self.alpha_prime = Int2C(2)
    /\ ~loc.do_block_diagonal_inversion
    /\ loc.PhiI[0] # Zero
    /\ loc.T_Ninv_T[0][1] # Zero
    /\ SigmaBuilt[0][1] = CDiv(loc.T_Ninv_T[0][1], Int2C(4))
    /\ SigmaBuilt[0][0] = CAdd(CDiv(loc.T_Ninv_T[0][0], Int2C(4)), loc.PhiI[0])
---------------------------------------------------------------------------
(* calc_PowerI on a family of parameter layouts.  Each (u, v) pixel owns a *)
(* block of neta Fourier entries followed by nq LSSM entries               *)
(* (SimData.py lines 243-262); a subharmonic grid appends its own entries  *)
(* after the nuv blocks.                                                   *)

ShgEntries == 2

(* run_EoR.py lines 47-54 with params.py's neta = nf (lines 17-18): the    *)
(* image-domain model gives up nq of the Fourier modes to the LSSM.        *)
PowerGrids ==
    [inst : BOOLEAN, neta : {2, 4}, nq : {0, 1, 2}, nuv : {2, 3},
     use_shg : BOOLEAN, lwm : BOOLEAN, inverse_LW_power : {One, Rat(1, 2)}]

PrimaryGrid(c) == Idx(c.nuv * (c.neta + c.nq))

(* The voxels whose mask entry is True (SimData.py lines 203-262): a       *)
(* Fourier entry that is not the eta = 0 mode and, in the image-domain     *)
(* model with an LSSM, not the Nyquist mode nor (unless nq = 1) the mode   *)
(* below it.  z runs over -(neta//2) .. neta//2 - 1 (lines 57-59).         *)
MaskedVoxels(c) ==
    {i \in PrimaryGrid(c) :
        LET o == i % (c.neta + c.nq)
        IN  /\ o < c.neta
            /\ o # c.neta \div 2
            /\ (~c.inst /\ c.nq > 0) => (o # 0 /\ (c.nq # 1 => o # c.neta - 1))}

PowerInstance(c) ==
    [PowerSpectrumPosteriorProbability(BaseConfig) EXCEPT
        !.neta = c.neta, !.nq = c.nq, !.nuv = c.nuv,
        !.nf = IF c.inst THEN c.neta ELSE c.neta + c.nq,
        !.Npar = c.nuv * (c.neta + c.nq) + (IF c.use_shg THEN ShgEntries ELSE 0),
        !.use_shg = c.use_shg,
        !.inverse_LW_power = c.inverse_LW_power,
        !.k_cube_voxels_in_bin = IF MaskedVoxels(c) = {} THEN <<>>
                                 ELSE [j \in Idx(1) |-> MaskedVoxels(c)],
        !.T_Ninv_T = None, !.dbar = None, !.block_T_Ninv_T = None]

(* The indices the LSSM assignments write (lines 330-369).                 *)
LSSMWrites(slf, pp) ==
    LET q0_index == IF pp.include_instrumental_effects
                    THEN slf.neta \div 2 ELSE (slf.nf \div 2) - 1
        cg_end   == IF slf.use_shg THEN slf.nuv * slf.nf ELSE slf.Npar
    IN  StridedIndices(slf.Npar, cg_end, q0_index, slf.neta + slf.nq)
        \cup StridedIndices(slf.Npar, cg_end, slf.neta, slf.neta + slf.nq)
        \cup StridedIndices(slf.Npar, cg_end, slf.neta + 1, slf.neta + slf.nq)

(* The indices PowerI[cg_end:] = self.inverse_LW_power writes (lines       *)
(* 336-337, 371-375).                                                      *)
SHGWrites(slf) ==
    IF slf.use_shg THEN {i \in Idx(slf.Npar) : i >= slf.nuv * slf.nf} ELSE {}

PowerInputs(slf, pp) ==
    {[i \in Idx(Fourier_mode_start_index(pp) + Len0(slf.k_cube_voxels_in_bin)) |->
         Int2C(v)] : v \in 1 .. 2}

InitPower ==
    \E c \in PowerGrids :
        /\ p = [Params(BaseConfig) EXCEPT !.include_instrumental_effects = c.inst,
                                          !.use_LWM_Gaussian_prior = c.lwm]
        /\ self = PowerInstance(c)
        /\ pc = "POWER_IDLE"
        /\ loc = None
        /\ ret = NoReturn
        /\ storage = None
        /\ other = None

CalcPowerI ==
    /\ pc = "POWER_IDLE"
    /\ \E x \in PowerInputs(self, p) :
           /\ loc' = [x |-> x, PhiI |-> calc_PowerI(self, p, x).val,
                      lssm |-> LSSMWrites(self, p), shg |-> SHGWrites(self)]
           /\ pc' = "POWER_DONE"
    /\ UNCHANGED <<p, self, storage, ret, other>>

NextPower == CalcPowerI

SpecPower == InitPower /\ [][NextPower]_vars

(* C26 (as claimed): with a subharmonic grid the flat precision is written *)
(* to exactly the indices from nuv*(neta+nq) on, the LSSM seeding stays    *)
(* within the primary grid, and no primary-grid entry is written by the    *)
(* subharmonic assignment.                                                 *)
C26_Claim ==
    (pc = "POWER_DONE" /\ self.use_shg) =>
        /\ loc.shg = {i \in Idx(self.Npar) : i >= self.nuv * (self.neta + self.nq)}
        /\ loc.lssm \subseteq Idx(self.nuv * (self.neta + self.nq))
        /\ \A i \in Idx(self.nuv * (self.neta + self.nq)) : i \notin loc.shg
        /\ \A i \in Idx(self.Npar) :
               i >= self.nuv * (self.neta + self.nq) => loc.PhiI[i] = self.inverse_LW_power

InBin(i) == \E j \in DOMAIN self.k_cube_voxels_in_bin : i \in self.k_cube_voxels_in_bin[j]
LSSMOffset(i) ==
    \/ i % (self.neta + self.nq) = self.neta \div 2
    \/ i % (self.neta + self.nq) >= self.neta
(* C28 (as claimed): for nq in {0, 1, 2} and even neta the LSSM seeding    *)
(* writes only indices whose offset within their per-pixel block is the    *)
(* monopole offset neta//2 or an LSSM slot (offset >= neta), so that every *)
(* voxel in no k-bin, at no such offset and outside the subharmonic range  *)
(* keeps PhiI = 0.                                                         *)
C28_Claim ==
    pc = "POWER_DONE" =>
        /\ \A i \in loc.lssm : LSSMOffset(i)
        /\ \A i \in Idx(self.nuv * (self.neta + self.nq)) :
               (~InBin(i) /\ ~LSSMOffset(i)) => loc.PhiI[i] = Zero

(* nDims as the driver computes it (run_EoR.py lines 495-499).             *)
nDims(slf, pp) ==
    Len0(slf.k_cube_voxels_in_bin)
    + (IF slf.intrinsic_noise_fitting THEN 1 ELSE 0)
    + (IF pp.use_LWM_Gaussian_prior THEN 3 ELSE 0)
(* The entries of x_arg this call reads: those stripped by the unpacking   *)
(* and those calc_PowerI indexes in what is left.                          *)
EntriesRead ==
    (Len0(loc.x_arg) - Len0(loc.x))
    + Fourier_mode_start_index(p) + Len0(self.k_cube_voxels_in_bin)
(* C27 (as claimed): the driver's nDims is the number of k-bins, plus 1    *)
(* under noise fitting, plus 3 under the LSSM Gaussian prior, plus 2 under *)
(* spectral-index fitting, and so equals the number of entries the         *)
(* evaluator consumes from x.                                              *)
C27_Claim ==
    pc = "PARAMS_UNPACKED" =>
        /\ nDims(self, p) = Len0(self.k_cube_voxels_in_bin)
                            + (IF self.intrinsic_noise_fitting THEN 1 ELSE 0)
                            + (IF p.use_LWM_Gaussian_prior THEN 3 ELSE 0)
                            + (IF self.fit_for_spectral_model_parameters THEN 2 ELSE 0)
        /\ nDims(self, p) = EntriesRead

(* C29 (as claimed): posterior_probability leaves the instance's Print     *)
(* flag as it was before the call on every exit, the raise from a missing  *)
(* grid file included: no step of a call changes the flag it found.        *)
C29_Claim == [][self'.PrintFlag = self.PrintFlag]_vars
---------------------------------------------------------------------------
(* The block path on matrices of which one block cannot be factorised:     *)
(* with no prior on the LSSM amplitudes a block of ones stays singular     *)
(* whatever x is.                                                          *)

BlockConfigs ==
    {[BaseConfig EXCEPT !.geom = "A", !.inverse_LW_power = Zero, !.T = t,
                        !.useGPU = u] :
        t \in {"first", "last", "ones", "diag"}, u \in BOOLEAN}

InitBlocks ==
    \E c \in BlockConfigs :
        /\ p = Params(c)
        /\ self = PowerSpectrumPosteriorProbability(c)
        /\ storage = GridFiles(c.files)
        /\ pc = "IDLE"
        /\ loc = IdleLoc
        /\ ret = NoReturn
        /\ other = None

SpecBlocks == InitBlocks /\ [][Next]_vars

(* The blocks whose factorisation reports a nonzero code.                  *)
FailedBlocks ==
    {i \in Idx(self.nuv) :
        Potrf(SigmaBlockAt(i), self.neta + self.nq, 0, One).info # 0}
(* C30: on the accelerated block path the summed log|Sigma| is +inf as     *)
(* soon as one block's factorisation reports a nonzero code, whichever     *)
(* block it is and whatever flag an earlier block or call left; the flag   *)
(* is reset before each block, so what the instance keeps is the code of   *)
(* the last block factorised.                                              *)
C30_Theorem ==
    (pc = "SOLVED" /\ p.useGPU /\ loc.do_block_diagonal_inversion) =>
        /\ FailedBlocks # {} => loc.logSigmaDet = LLNum(Inf)
        /\ FailedBlocks = {} => loc.logSigmaDet # LLNum(Inf)
        /\ self.GPU_error_flag =
               <<Potrf(SigmaBlockAt(self.nuv - 1), self.neta + self.nq, 0, One).info>>
C30_Witness ==
    /\ pc = "SOLVED"
    /\ p.useGPU
    /\ loc.do_block_diagonal_inversion
    /\ self.count = 2
    /\ FailedBlocks = {0}
    /\ self.GPU_error_flag = <<0>>
    /\ loc.logSigmaDet = LLNum(Inf)
=========================================================================
